---- MODULE Spec2Model ----
(***************************************************************************)
(* A model of the stratified group-splitting core of remarque              *)
(* (src/server/sampling.py): binsify, offset_features, stratify and        *)
(* split_via_stratification.                                               *)
(*                                                                         *)
(* Numbers.  stratify works on floats r*size; the model keeps every such   *)
(* quantity multiplied by Scale = 2 * RatioDen (the ratios are k/RatioDen  *)
(* and the default 0.5), so that all comparisons are exact integer         *)
(* comparisons.  For dyadic ratios                                         *)
(* (1/4, 1/2, 3/4) the floating-point computation of the code is exact as  *)
(* well.  Quantiles are kept multiplied by Tenths in the same way.         *)
(***************************************************************************)
EXTENDS Integers, Sequences, FiniteSets, TLC

\* ---------------------------------------------------------------- bounds
\* users of a direct stratify call: 1..MaxUsers
MaxUsers == 3
\* labels one user carries in a direct stratify call: 0..MaxLabelsPerUser
MaxLabelsPerUser == 2
\* split ratios are k/RatioDen, 0 < k < RatioDen
RatioDen == 4
\* rows of a table passed to split_via_stratification: 1..MaxRows
MaxRows == 3

\* every count of stratify is kept multiplied by Scale
Scale == 2 * RatioDen

VARIABLES
  caller,                  \* the entry point of this run
  pc,                      \* position in the code
  input,                   \* split: the caller's table
  split_ratio,             \* split: the caller's ratio (x Scale), or None
  df,                      \* split: the working table
  numeric_features,        \* split: numeric stratification columns
  cat_features,            \* split: categorical stratification columns
  encoded,                 \* split: the encoded table
  users_test,              \* split: users of the test partition
  users_control,           \* split: users of the control partition
  values,                  \* binsify: the column's values
  percentile,              \* binsify: the percentile argument
  bins,                    \* binsify: the returned edges (x Tenths)
  buckets,                 \* line 372: the bucket index of every row
  data,                    \* stratify: per user (0..N-1) its list of labels
  classes,                 \* stratify: list of all labels
  rnum,                    \* stratify: ratio = rnum / Scale
  per_label_data,          \* stratify: label -> set of unassigned users
  size,                    \* stratify: users left to assign
  subset_sizes,            \* stratify: remaining target sizes (x RatioDen)
  per_label_subset_sizes,  \* stratify: label -> remaining targets (x RatioDen)
  sorted_labels,           \* stratify: labels, most frequent first
  stratified_data_ids,     \* stratify: the two sets of user indices
  label,                   \* stratify: label being processed
  encoded_ids,             \* stratify's return value: two sorted lists
  enc_all_cols,            \* make_encoding: the all_cols argument
  enc_exclude_cols,        \* make_encoding: the exclude_cols argument
  audience_mode,           \* run_sampling_for_audience: audience.mode
  log,                     \* the warnings logged so far
  df_object,               \* split: the object its name df is bound to
  metrics,                 \* get_split_metrics: feature -> FeatureMetrics
  distributions,           \* prepare_distribution_data: feature -> bin labels
  today,                   \* data gateway: the day of the current run
  audience_ttl,            \* data gateway: audience.ttl
  bq,                      \* data gateway: the audience's daily tables
  placed,                  \* the users ever written to a test / control table
  ads                      \* ads gateway: the state of one upload call

splitVars == <<input, split_ratio, df, numeric_features, cat_features,
               encoded, users_test, users_control>>

binVars == <<values, percentile, bins, buckets>>

encVars == <<enc_all_cols, enc_exclude_cols>>

\* the variables of the entry points that are modelled further below
gatewayVars == <<today, audience_ttl, bq, placed, ads>>

laterVars == <<encVars, audience_mode, gatewayVars, log, df_object, metrics,
              distributions>>

vars == <<caller, pc, input, split_ratio, df, numeric_features, cat_features,
          encoded, users_test, users_control, values, percentile, bins,
          buckets, data, classes, rnum,
          per_label_data, size, subset_sizes, per_label_subset_sizes,
          sorted_labels, stratified_data_ids, label, encoded_ids,
          enc_all_cols, enc_exclude_cols, audience_mode, log, df_object,
          metrics, distributions, today, audience_ttl, bq, placed, ads>>

None == "None"

\* no call of the gateways is in progress
GatewayIdle ==
  /\ today = 0
  /\ audience_ttl = 0
  /\ bq = <<>>
  /\ placed = <<>>
  /\ ads = <<>>

\* no call of the entry points modelled further below is in progress
LaterIdle ==
  /\ GatewayIdle
  /\ enc_all_cols = None
  /\ enc_exclude_cols = None
  /\ audience_mode = None
  /\ log = <<>>
  /\ df_object = None
  /\ metrics = <<>>
  /\ distributions = <<>>

\* ------------------------------------------------------------- helpers
Range(s) == {s[i] : i \in DOMAIN s}

Min(S) == CHOOSE x \in S : \A y \in S : x <= y

Max(S) == CHOOSE x \in S : \A y \in S : x >= y

\* sequences over S of length lo..hi
SeqsOf(S, lo, hi) == UNION {[1..n -> S] : n \in lo..hi}

\* number of positions of s holding x
Occurrences(s, x) == Cardinality({i \in DOMAIN s : s[i] = x})

\* sorted(): the elements of a set of integers in ascending order
RECURSIVE Sorted(_)
Sorted(S) == IF S = {} THEN <<>> ELSE <<Min(S)>> \o Sorted(S \ {Min(S)})

\* ------------------------------------------------------------ stratify
Users == DOMAIN data

\* per_label_data after the loop of lines 137-140
InitialPerLabelData ==
  [c \in Range(classes) |-> {i \in Users : c \in Range(data[i])}]

\* ratios = [ratio, 1 - ratio], multiplied by Scale
Ratios == [s \in {0, 1} |-> IF s = 0 THEN rnum ELSE Scale - rnum]

\* sorted(..., key=count, reverse=True): a stable sort of the dict's keys
\* (first occurrence order in classes) by descending count.
FirstIndex(c) == Min({i \in DOMAIN classes : classes[i] = c})

RECURSIVE SortByCountDesc(_, _)
SortByCountDesc(S, cnt) ==
  IF S = {} THEN <<>>
  ELSE LET m == Max({cnt[c] : c \in S})
           first == CHOOSE c \in S :
                      /\ cnt[c] = m
                      /\ \A d \in S : cnt[d] = m => FirstIndex(c) <= FirstIndex(d)
       IN <<first>> \o SortByCountDesc(S \ {first}, cnt)

\* lines 137-190: everything stratify does before its main loop
StratifyEnter ==
  /\ pc = "stratify"
  /\ IF \E i \in Users : \E l \in Range(data[i]) : l \notin Range(classes)
     THEN \* per_label_data[l] of line 140 raises KeyError
          /\ pc' = "KeyError"
          /\ UNCHANGED <<per_label_data, size, subset_sizes,
                         per_label_subset_sizes, sorted_labels,
                         stratified_data_ids>>
     ELSE /\ per_label_data' = InitialPerLabelData
          /\ size' = Cardinality(Users)
          /\ subset_sizes' = [s \in {0, 1} |-> Ratios[s] * Cardinality(Users)]
          /\ per_label_subset_sizes' =
               [c \in Range(classes) |->
                  [s \in {0, 1} |-> Ratios[s] * Cardinality(InitialPerLabelData[c])]]
          /\ sorted_labels' =
               SortByCountDesc(Range(classes),
                               [c \in Range(classes) |->
                                  Cardinality(InitialPerLabelData[c])])
          /\ stratified_data_ids' = [s \in {0, 1} |-> {}]
          /\ pc' = "outer"
  /\ UNCHANGED <<caller, laterVars, binVars, splitVars, data, classes, rnum, label, encoded_ids>>

\* line 195-197: labels that still have unassigned users, in sorted_labels order
AvailableLabels ==
  SelectSeq(sorted_labels, LAMBDA l : per_label_data[l] # {})

\* PickLabel choosing the label with the fewest remaining users instead
PickLabelFewest(avail) ==
  LET m == Min({Cardinality(per_label_data[avail[i]]) : i \in DOMAIN avail})
      k == Min({i \in DOMAIN avail : Cardinality(per_label_data[avail[i]]) = m})
  IN avail[k]

\* line 201: max(available_labels, key=count) returns the first maximal item
PickLabel(avail) ==
  LET m == Max({Cardinality(per_label_data[avail[i]]) : i \in DOMAIN avail})
      k == Min({i \in DOMAIN avail : Cardinality(per_label_data[avail[i]]) = m})
  IN avail[k]

\* lines 193-203: one test of the outer loop that selects a label
OuterSelect ==
  /\ pc = "outer"
  /\ size > 0
  /\ AvailableLabels # <<>>
  /\ label' = PickLabel(AvailableLabels)
  /\ pc' = "inner"
  /\ UNCHANGED <<caller, laterVars, binVars, splitVars, data, classes, rnum, per_label_data, size, subset_sizes,
                 per_label_subset_sizes, sorted_labels, stratified_data_ids,
                 encoded_ids>>

\* the outer loop without lines 198-199: max() of line 201 gets an empty list
OuterMaxOfEmpty ==
  /\ pc = "outer"
  /\ size > 0
  /\ AvailableLabels = <<>>
  /\ pc' = "ValueError"
  /\ UNCHANGED <<caller, laterVars, binVars, splitVars, data, classes, rnum, per_label_data, size, subset_sizes,
                 per_label_subset_sizes, sorted_labels, stratified_data_ids,
                 label, encoded_ids>>

\* lines 198-199: no label has a user left although size > 0
OuterBreak ==
  /\ pc = "outer"
  /\ size > 0
  /\ AvailableLabels = <<>>
  /\ pc' = "sort"
  /\ UNCHANGED <<caller, laterVars, binVars, splitVars, data, classes, rnum, per_label_data, size, subset_sizes,
                 per_label_subset_sizes, sorted_labels, stratified_data_ids,
                 label, encoded_ids>>

\* line 193: the loop condition size > 0 fails
OuterExit ==
  /\ pc = "outer"
  /\ size <= 0
  /\ pc' = "sort"
  /\ UNCHANGED <<caller, laterVars, binVars, splitVars, data, classes, rnum, per_label_data, size, subset_sizes,
                 per_label_subset_sizes, sorted_labels, stratified_data_ids,
                 label, encoded_ids>>

\* Decide without its second level: a label tie goes straight to the coin
DecideNoSizeLevel(test_needs_label, control_needs_label, sizes) ==
  IF test_needs_label # control_needs_label
  THEN {IF test_needs_label > control_needs_label THEN 0 ELSE 1}
  ELSE {0, 1}

\* Decide with the comparisons of lines 215 and 223 turned around
DecideSmallerNeed(test_needs_label, control_needs_label, sizes) ==
  IF test_needs_label # control_needs_label
  THEN {IF test_needs_label < control_needs_label THEN 0 ELSE 1}
  ELSE IF sizes[0] # sizes[1]
       THEN {IF sizes[0] < sizes[1] THEN 0 ELSE 1}
       ELSE {0, 1}

\* lines 214-235: the subsets the three-level decision may choose
Decide(test_needs_label, control_needs_label, sizes) ==
  IF test_needs_label # control_needs_label
  THEN {IF test_needs_label > control_needs_label THEN 0 ELSE 1}
  ELSE IF sizes[0] # sizes[1]
       THEN {IF sizes[0] > sizes[1] THEN 0 ELSE 1}
       ELSE {0, 1}   \* np.random.choice([0, 1])

\* DecrementLabels touching only the first label of the user's list
DecrementFirstLabelOnly(plss, labels, subset) ==
  [c \in DOMAIN plss |->
     IF labels # <<>> /\ c = labels[1]
     THEN [plss[c] EXCEPT ![subset] = @ - Scale]
     ELSE plss[c]]

\* lines 245-246: one decrement per occurrence of a label in the user's list
DecrementLabels(plss, labels, subset) ==
  [c \in DOMAIN plss |->
     [plss[c] EXCEPT ![subset] = @ - Scale * Occurrences(labels, c)]]

\* RemoveUser without lines 248-249: the user stays in its other label sets
RemoveUserNowhere(pld, labels, current_id) == pld

\* lines 248-249 (and the pop of line 208): the user leaves every label set
RemoveUser(pld, labels, current_id) ==
  [c \in DOMAIN pld |->
     IF c \in Range(labels) THEN pld[c] \ {current_id} ELSE pld[c]]

\* lines 206-249: one iteration of the inner loop assigning current_id to subset
Assign(current_id, subset) ==
  /\ pc = "inner"
  /\ current_id \in per_label_data[label]
  /\ subset \in Decide(per_label_subset_sizes[label][0],
                       per_label_subset_sizes[label][1], subset_sizes)
  /\ stratified_data_ids' =
       [stratified_data_ids EXCEPT ![subset] = @ \cup {current_id}]
  /\ size' = size - 1
  /\ subset_sizes' = [subset_sizes EXCEPT ![subset] = @ - Scale]
  /\ per_label_subset_sizes' =
       DecrementLabels(per_label_subset_sizes, data[current_id], subset)
  /\ per_label_data' =
       RemoveUser([per_label_data EXCEPT ![label] = @ \ {current_id}],
                  data[current_id], current_id)
  /\ UNCHANGED <<caller, laterVars, binVars, splitVars, pc, data, classes, rnum, sorted_labels, label, encoded_ids>>

InnerAssign ==
  /\ pc = "inner"
  /\ \E current_id \in Users : \E subset \in {0, 1} : Assign(current_id, subset)

\* line 206: the label has no user left
InnerExit ==
  /\ pc = "inner"
  /\ per_label_data[label] = {}
  /\ pc' = "outer"
  /\ UNCHANGED <<caller, laterVars, binVars, splitVars, data, classes, rnum, per_label_data, size, subset_sizes,
                 per_label_subset_sizes, sorted_labels, stratified_data_ids,
                 label, encoded_ids>>

\* lines 252-255
StratifyReturn ==
  /\ pc = "sort"
  /\ encoded_ids' = [s \in {0, 1} |-> Sorted(stratified_data_ids[s])]
  /\ pc' = "returned"
  /\ UNCHANGED <<caller, laterVars, binVars, splitVars, data, classes, rnum, per_label_data, size, subset_sizes,
                 per_label_subset_sizes, sorted_labels, stratified_data_ids,
                 label>>

StratifyNext ==
  \/ StratifyEnter
  \/ OuterSelect
  \/ OuterBreak
  \/ OuterExit
  \/ InnerAssign
  \/ InnerExit
  \/ StratifyReturn

\* -------------------------------------------- a direct call of stratify
\* The label universe of a direct call.
LabelUniverse == <<"0", "1">>

\* stratify reads a user's labels as a multiset (lines 139, 245) and the users
\* as a set (pop order is arbitrary, the result is sorted), so the inputs are
\* enumerated up to the order of a user's labels and up to the order of the
\* users: label lists are non-decreasing in the label's index and users are
\* non-decreasing in ListKey.
IndexLists ==
  {l \in SeqsOf(DOMAIN LabelUniverse, 0, MaxLabelsPerUser) :
     \A i \in 1..(Len(l) - 1) : l[i] <= l[i + 1]}

RECURSIVE ListKey(_)
ListKey(l) ==
  IF l = <<>> THEN 0
  ELSE ListKey(SubSeq(l, 1, Len(l) - 1)) * (Len(LabelUniverse) + 1) + l[Len(l)]

LabelsOf(l) == [i \in DOMAIN l |-> LabelUniverse[l[i]]]

StratifyInputs ==
  UNION {
    {[i \in 0..(n - 1) |-> LabelsOf(f[i])] :
       f \in {g \in [0..(n - 1) -> IndexLists] :
                \A i \in 0..(n - 2) : ListKey(g[i]) <= ListKey(g[i + 1])}}
    : n \in 1..MaxUsers}

StratifyInit ==
  /\ caller = "stratify"
  /\ pc = "stratify"
  /\ input = None
  /\ split_ratio = None
  /\ df = None
  /\ numeric_features = None
  /\ cat_features = None
  /\ encoded = None
  /\ users_test = None
  /\ users_control = None
  /\ values = None
  /\ percentile = None
  /\ bins = None
  /\ buckets = None
  /\ LaterIdle
  /\ classes = LabelUniverse
  /\ data \in StratifyInputs
  /\ rnum \in {2 * k : k \in 1..(RatioDen - 1)}
  /\ per_label_data = <<>>
  /\ size = 0
  /\ subset_sizes = <<>>
  /\ per_label_subset_sizes = <<>>
  /\ sorted_labels = <<>>
  /\ stratified_data_ids = <<>>
  /\ label = None
  /\ encoded_ids = <<>>

SpecStratify == StratifyInit /\ [][StratifyNext]_vars

\* the interpreter keeps executing the call: a step that can be taken is taken
SpecStratifyFair == SpecStratify /\ WF_vars(StratifyNext)

\* ------------------------------------------------- claims about stratify
EveryUserLabelled == \A i \in Users : data[i] # <<>>

StrictlyAscending(s) == \A i \in 1..(Len(s) - 1) : s[i] < s[i + 1]

\* a step of the inner loop that assigns a user
AssignStep == pc = "inner" /\ size' = size - 1

\* the user and the subset of an assigning step
AssignedUser ==
  CHOOSE u \in Users : u \in per_label_data[label] \ per_label_data'[label]

AssignedSubset ==
  CHOOSE p \in {0, 1} : subset_sizes'[p] # subset_sizes[p]

\* C3: when every user carries at least one label (all of them in classes),
\* stratify returns two lists of user indices that are disjoint, each sorted
\* ascending without repeats, and that together hold every index 0..N-1
\* exactly once, whatever the pop order and the coin flips were.
C3_StratifyPartitions ==
  (pc = "returned" /\ EveryUserLabelled) =>
    /\ Range(encoded_ids[0]) \cap Range(encoded_ids[1]) = {}
    /\ StrictlyAscending(encoded_ids[0])
    /\ StrictlyAscending(encoded_ids[1])
    /\ Range(encoded_ids[0]) \cup Range(encoded_ids[1]) = Users
    /\ Len(encoded_ids[0]) + Len(encoded_ids[1]) = Cardinality(Users)

\* a returned split of three labelled users, one of them with two labels,
\* with both partitions occupied
C3_Witness ==
  /\ pc = "returned"
  /\ EveryUserLabelled
  /\ Cardinality(Users) = 3
  /\ \E i \in Users : Len(data[i]) = 2
  /\ Len(encoded_ids[0]) = 2
  /\ Len(encoded_ids[1]) = 1

C5_ThreeLevelDecision ==
  /\ [][AssignStep =>
          LET t == per_label_subset_sizes[label][0]
              c == per_label_subset_sizes[label][1]
              p == AssignedSubset
          IN /\ t > c => p = 0
             /\ t < c => p = 1
             /\ (t = c /\ subset_sizes[0] > subset_sizes[1]) => p = 0
             /\ (t = c /\ subset_sizes[0] < subset_sizes[1]) => p = 1]_vars
  /\ [](( /\ pc = "inner"
          /\ per_label_data[label] # {}
          /\ per_label_subset_sizes[label][0] = per_label_subset_sizes[label][1]
          /\ subset_sizes[0] = subset_sizes[1])
        => \A p \in {0, 1} : ENABLED (\E u \in Users : Assign(u, p)))

\* an assignment to control was just decided by the overall sizes: the
\* label's two counts are tied again after it, control's size is the smaller
C5_Witness ==
  /\ pc = "inner"
  /\ size < Cardinality(Users)
  /\ per_label_data[label] # {}
  /\ per_label_subset_sizes[label][0] = per_label_subset_sizes[label][1]
  /\ subset_sizes[0] > subset_sizes[1]

\* C6: an assignment of user u to partition p takes one unit off p's overall
\* remaining size, one unit per occurrence off p's remaining target of every
\* label u carries (processed or not), removes u from the remaining-user set
\* of every label, and changes neither the other partition's counts and
\* members nor any other user's memberships.
C6_AssignmentEffect ==
  [][AssignStep =>
       LET u == AssignedUser
           p == AssignedSubset
           q == 1 - AssignedSubset
       IN /\ stratified_data_ids'[p] = stratified_data_ids[p] \cup {u}
          /\ stratified_data_ids'[q] = stratified_data_ids[q]
          /\ subset_sizes'[p] = subset_sizes[p] - Scale
          /\ subset_sizes'[q] = subset_sizes[q]
          /\ \A l \in Range(classes) :
               /\ per_label_subset_sizes'[l][p] =
                    per_label_subset_sizes[l][p] - Scale * Occurrences(data[u], l)
               /\ per_label_subset_sizes'[l][q] = per_label_subset_sizes[l][q]
               /\ per_label_data'[l] = per_label_data[l] \ {u}
               /\ l \in Range(data[u]) => u \notin per_label_data'[l]]_vars

\* a user carrying two different labels has been assigned while the first
\* label was processed: the other label's set and target have moved too
C6_Witness ==
  /\ pc = "inner"
  /\ \E u \in Users : \E p \in {0, 1} : \E l \in Range(data[u]) :
       /\ u \in stratified_data_ids[p]
       /\ l # label
       /\ label \in Range(data[u])
       /\ size = Cardinality(Users) - 1
       /\ per_label_subset_sizes[l][p] # Ratios[p] * Cardinality(InitialPerLabelData[l])


\* ----------------------------------------------------------------- binsify
\* the percentile literals of lines 281 and 283 are written in tenths
Tenths == 10

\* line 280: tables with fewer rows get the single median cut
SmallDataset == 10

SortedValues(col) == SortSeq(col, LAMBDA a, b : a < b)

\* np.quantile(values, k/10) with linear interpolation, multiplied by Tenths
Quantile(col, k) ==
  LET s == SortedValues(col)
      pos == (Len(s) - 1) * k
      lo == (pos \div Tenths) + 1
      frac == pos % Tenths
  IN IF frac = 0
     THEN Tenths * s[lo]
     ELSE Tenths * s[lo] + frac * (s[lo + 1] - s[lo])

\* the percentile argument: None, or a list of cut points in tenths
NoPercentile == [given |-> FALSE, list |-> <<>>]

PercentileList(l) == [given |-> TRUE, list |-> l]

\* line 279: "not percentile" holds of None and of the empty list
Falsy(arg) == ~arg.given \/ arg.list = <<>>

\* Percentiles ignoring the size of the table
PercentilesAlwaysDefault(n, arg) ==
  IF Falsy(arg) THEN <<2, 4, 6, 8>> ELSE arg.list

\* lines 279-283: the percentiles binsify uses, in tenths
Percentiles(n, arg) ==
  IF Falsy(arg)
  THEN IF n < SmallDataset THEN <<5>> ELSE <<2, 4, 6, 8>>
  ELSE arg.list

\* lines 284-287: the bin edges, multiplied by Tenths
binsify(col, arg) ==
  LET p == Percentiles(Len(col), arg)
  IN <<0>> \o Sorted({Quantile(col, p[i]) : i \in DOMAIN p})

\* np.searchsorted(bins, v, side='right') on non-decreasing bins (v x Tenths)
SearchsortedRight(edges, v) == Cardinality({i \in DOMAIN edges : edges[i] <= v})

\* line 372: the bucket index of a raw value
Bucket(edges, v) == SearchsortedRight(edges, Tenths * v) - 1

\* ------------------------------------------------ a direct call of binsify
\* rows of a column passed to binsify: 1..MaxBinRows
MaxBinRows == 10

\* the values of such a column; np.quantile sorts the column and line 372
\* treats every row by itself, so the columns are enumerated in ascending
\* order
BinValues == <<-1, 0, 1, 2>>

RECURSIVE Repeated(_, _)
Repeated(counts, k) ==
  IF k = 0 THEN <<>>
  ELSE Repeated(counts, k - 1) \o [i \in 1..counts[k] |-> BinValues[k]]

BinColumns ==
  {Repeated(c, Len(BinValues)) :
     c \in {d \in [DOMAIN BinValues -> 0..MaxBinRows] :
              LET total == d[1] + d[2] + d[3] + d[4]
              IN total >= 1 /\ total <= MaxBinRows}}

PercentileArgs ==
  {NoPercentile, PercentileList(<<>>), PercentileList(<<5>>),
   PercentileList(<<8, 2>>), PercentileList(<<0, 5, 10>>)}

NonDecreasing(s) == \A i \in 1..(Len(s) - 1) : s[i] <= s[i + 1]

\* lines 279-287
BinsifyCall ==
  /\ caller = "binsify"
  /\ pc = "binsify"
  /\ bins' = binsify(values, percentile)
  /\ pc' = "binned"
  /\ UNCHANGED <<caller, laterVars, values, percentile, buckets, splitVars, data, classes,
                 rnum, per_label_data, size, subset_sizes,
                 per_label_subset_sizes, sorted_labels, stratified_data_ids,
                 label, encoded_ids>>

\* line 372 on edges in ascending order
Bucketing ==
  /\ caller = "binsify"
  /\ pc = "binned"
  /\ NonDecreasing(bins)
  /\ buckets' = [i \in DOMAIN values |-> Bucket(bins, values[i])]
  /\ pc' = "bucketed"
  /\ UNCHANGED <<caller, laterVars, values, percentile, bins, splitVars, data, classes,
                 rnum, per_label_data, size, subset_sizes,
                 per_label_subset_sizes, sorted_labels, stratified_data_ids,
                 label, encoded_ids>>

\* line 372 on edges that are not in ascending order: np.searchsorted
\* requires a sorted array, its result is unspecified
BucketingUnsorted ==
  /\ caller = "binsify"
  /\ pc = "binned"
  /\ ~NonDecreasing(bins)
  /\ pc' = "unsorted_edges"
  /\ UNCHANGED <<caller, laterVars, binVars, splitVars, data, classes,
                 rnum, per_label_data, size, subset_sizes,
                 per_label_subset_sizes, sorted_labels, stratified_data_ids,
                 label, encoded_ids>>

BinsNext ==
  \/ BinsifyCall
  \/ Bucketing
  \/ BucketingUnsorted

BinsInit ==
  /\ caller = "binsify"
  /\ pc = "binsify"
  /\ values \in BinColumns
  /\ percentile \in PercentileArgs
  /\ bins = None
  /\ buckets = None
  /\ LaterIdle
  /\ input = None
  /\ split_ratio = None
  /\ df = None
  /\ numeric_features = None
  /\ cat_features = None
  /\ encoded = None
  /\ users_test = None
  /\ users_control = None
  /\ data = None
  /\ classes = None
  /\ rnum = 0
  /\ per_label_data = <<>>
  /\ size = 0
  /\ subset_sizes = <<>>
  /\ per_label_subset_sizes = <<>>
  /\ sorted_labels = <<>>
  /\ stratified_data_ids = <<>>
  /\ label = None
  /\ encoded_ids = <<>>

SpecBins == BinsInit /\ [][BinsNext]_vars

\* -------------------------------------------------- claims about binsify
BinsifyReturned ==
  caller = "binsify" /\ pc \in {"binned", "bucketed", "unsorted_edges"}

\* C9: for every non-empty numeric column (constant, with zeros, with
\* negative values) and every percentile list, binsify returns at least two
\* edges, the first of them 0.0, in strictly increasing order.
C9_BinEdgesStrictlyIncreasing ==
  BinsifyReturned =>
    /\ Len(bins) >= 2
    /\ bins[1] = 0
    /\ StrictlyAscending(bins)

\* e lies between the two order statistics np.quantile interpolates for the
\* cut k/10 (the columns of BinColumns are in ascending order)
EdgeIsCut(e, k) ==
  LET pos == (Len(values) - 1) * k
      lo == pos \div 10
      hi == IF pos % 10 = 0 THEN lo ELSE lo + 1
  IN /\ 10 * values[lo + 1] <= e
     /\ e <= 10 * values[hi + 1]

\* C10: without percentiles (None or an empty list) a table of fewer than 10
\* rows gets the two edges 0.0 and the median, so the bucket indices of line
\* 372 take at most 3 distinct values, and fewer than there are rows once
\* there are 4 rows; a table of 10 or more rows gets at most five edges,
\* each after the first at one of the cuts 0.2, 0.4, 0.6, 0.8.
C10_DefaultPercentiles ==
  (BinsifyReturned /\ Falsy(percentile)) =>
    LET n == Len(values)
    IN /\ n < 10 =>
            /\ bins = <<0, 5 * (values[(n + 1) \div 2] + values[(n + 2) \div 2])>>
            /\ pc = "bucketed" =>
                 /\ Cardinality(Range(buckets)) <= 3
                 /\ n >= 4 => Cardinality(Range(buckets)) < n
       /\ n >= 10 =>
            /\ Len(bins) <= 5
            /\ \A i \in 2..Len(bins) : \E k \in {2, 4, 6, 8} : EdgeIsCut(bins[i], k)

\* four rows without percentiles, put into three different buckets
C10_Witness ==
  /\ caller = "binsify"
  /\ pc = "bucketed"
  /\ percentile = NoPercentile
  /\ Len(values) = 4
  /\ Cardinality(Range(buckets)) = 3

\* ------------------------------------------------------------------ tables
\* A table is a sequence of rows in position order; a row is a record of its
\* column values and of its index label (field "index").
Column(t, c) == [i \in DOMAIN t |-> t[i][c]]

\* the rows of t at the positions S, in position order
Pick(t, S) == [k \in 1..Cardinality(S) |-> t[Sorted(S)[k]]]

\* df.drop_duplicates(subset=['user'], keep='last'): the index is kept
DropDuplicatesLast(t) ==
  Pick(t, {i \in DOMAIN t : \A j \in DOMAIN t : j > i => t[j].user # t[i].user})

\* order of first appearance, without repeats (Series.unique)
RECURSIVE Unique(_)
Unique(s) ==
  IF s = <<>> THEN <<>>
  ELSE LET front == Unique(SubSeq(s, 1, Len(s) - 1))
       IN IF s[Len(s)] \in Range(front) THEN front ELSE Append(front, s[Len(s)])

\* str() of an integer cell
Str(v) == ToString(v)

\* the columns of the table the callers and the test pass in, and their dtypes
Columns == <<"user", "days_since_install", "n_sessions", "brand", "src">>

DType(c) ==
  IF c \in {"user", "brand", "src", "country"} THEN "object"
  ELSE IF c = "is_premium" THEN "bool"
  ELSE IF c = "segment" THEN "category"
  ELSE "int64"

\* feature columns a caller's table may carry besides those of Columns
ExtraColumns == <<"n_purchases", "country", "is_premium", "segment">>

\* df.columns of a table
TableColumns(t) ==
  Columns \o SelectSeq(ExtraColumns, LAMBDA c : t # <<>> /\ c \in DOMAIN t[1])

\* line 358, line 361
exclude_cols == <<"user">>

binning_cols == <<"n_sessions", "days_since_install">>

BinColumn(c) == c \o "_bins"

\* df.columns after the binning loop
ColumnsWithBins(t) ==
  TableColumns(t) \o [k \in DOMAIN binning_cols |-> BinColumn(binning_cols[k])]

\* the alphabetical order of the category values (np.unique sorts them)
CategoryOrder == <<"Apple", "DE", "Mobile", "Samsung", "US", "Web">>

CategoryPos(v) == CHOOSE k \in DOMAIN CategoryOrder : CategoryOrder[k] = v

\* OrdinalEncoder fitted on the column: the rank among the column's values
OrdinalCode(t, c, v) ==
  Cardinality({w \in Range(Column(t, c)) : CategoryPos(w) < CategoryPos(v)})

\* lines 59-61: object columns of the table outside exclude_cols
CategoricalColumns(cols, exclude) ==
  SelectSeq(cols, LAMBDA c : c \notin Range(exclude) /\ DType(c) = "object")

\* lines 53-116 for a table without nullable columns
make_encoding(t, exclude, all_cols) ==
  LET cat_ix == CategoricalColumns(all_cols, exclude)
  IN [i \in DOMAIN t |->
        [c \in DOMAIN t[i] |->
           IF c \in Range(cat_ix) THEN OrdinalCode(t, c, t[i][c]) ELSE t[i][c]]]

\* line 303: max(df[numeric_features].max().max(), 0)
InitialOffset(t, nums) ==
  Max({0} \cup UNION {Range(Column(t, nums[k])) : k \in DOMAIN nums})

\* lines 305-308
RECURSIVE OffsetFrom(_, _, _)
OffsetFrom(t, cats, offset) ==
  IF cats = <<>> THEN t
  ELSE LET f == Head(cats)
           delta == Cardinality(Range(Column(t, f)))
           shifted == [i \in DOMAIN t |-> [t[i] EXCEPT ![f] = @ + offset]]
       IN OffsetFrom(shifted, Tail(cats), offset + delta)

offset_features(t, cats, nums) == OffsetFrom(t, cats, InitialOffset(t, nums))

\* lines 323-327
RECURSIVE get_unique_values(_, _)
get_unique_values(t, features) ==
  IF features = <<>> THEN <<>>
  ELSE LET col == Column(t, Head(features))
       IN Unique([i \in DOMAIN col |-> Str(col[i])])
            \o get_unique_values(t, Tail(features))

\* ------------------------------------------------------ get_split_metrics
\* A statistic is a fraction num/den with den > 0, or undefined (None, NaN).
\* Floats are modelled by these exact fractions; no fraction within the
\* bounds lies on a threshold, where rounding would decide.
Frac(n, d) ==
  IF d < 0 THEN [defined |-> TRUE, num |-> 0 - n, den |-> 0 - d]
  ELSE [defined |-> TRUE, num |-> n, den |-> d]

Undefined == [defined |-> FALSE, num |-> 0, den |-> 1]

Abs(x) == IF x < 0 THEN 0 - x ELSE x

RECURSIVE Sum(_)
Sum(s) == IF s = <<>> THEN 0 ELSE Head(s) + Sum(Tail(s))

SumSq(s) == Sum([i \in DOMAIN s |-> s[i] * s[i]])

\* Series.mean(): NaN for no value
Mean(s) == IF s = <<>> THEN Undefined ELSE Frac(Sum(s), Len(s))

\* the square of Series.std() (ddof = 1): NaN for fewer than two values
Variance(s) ==
  IF Len(s) < 2 THEN Undefined
  ELSE Frac(Len(s) * SumSq(s) - Sum(s) * Sum(s), Len(s) * (Len(s) - 1))

\* lines 466-468 and 473-475: test / control, None if one of them is NaN or
\* the control's is 0
Ratio(t, c) ==
  IF t.defined /\ c.defined /\ c.num # 0
  THEN Frac(t.num * c.den, t.den * c.num)
  ELSE Undefined

\* Python's truth value of a ratio: None and 0.0 are false
Truthy(r) == r.defined /\ r.num # 0

\* a ratio test on "is not None"
NotNone(r) == r.defined

\* line 469: mean_ratio and abs(mean_ratio - 1) > 0.1
MeanWarning(r) == Truthy(r) /\ 10 * Abs(r.num - r.den) > r.den

\* line 476: std_ratio and abs(std_ratio - 1) > 0.2, on the squared ratio q:
\* sqrt(q) > 1.2 or sqrt(q) < 0.8
StdWarning(q) ==
  Truthy(q) /\ (25 * q.num > 36 * q.den \/ 25 * q.num < 16 * q.den)

\* number of values of s that are <= x
CountLE(s, x) == Cardinality({i \in DOMAIN s : s[i] <= x})

\* the numerator of the KS statistic over the denominator Len(t) * Len(c):
\* the largest gap between the two empirical distribution functions
KSGap(t, c) ==
  Max({Abs(CountLE(t, x) * Len(c) - CountLE(c, x) * Len(t)) :
         x \in Range(t) \cup Range(c)})

\* lattice paths from (0, 0) to (i, j) on which the two distribution
\* functions of samples of sizes n and m stay closer than h / (n * m)
RECURSIVE PathsInside(_, _, _, _, _)
PathsInside(i, j, n, m, h) ==
  IF Abs(i * m - j * n) >= h THEN 0
  ELSE IF i = 0 /\ j = 0 THEN 1
  ELSE (IF i > 0 THEN PathsInside(i - 1, j, n, m, h) ELSE 0)
       + (IF j > 0 THEN PathsInside(i, j - 1, n, m, h) ELSE 0)

RECURSIVE Binomial(_, _)
Binomial(n, k) ==
  IF k = 0 \/ k = n THEN 1 ELSE Binomial(n - 1, k - 1) + Binomial(n - 1, k)

\* the exact two-sided p-value of ks_2samp: the share of the paths that
\* leave the band
KSPValue(t, c) ==
  LET n == Len(t)
      m == Len(c)
      all == Binomial(n + m, n)
  IN Frac(all - PathsInside(n, m, n, m, KSGap(t, c)), all)

\* a KS test whose large-gap flag does not depend on the p-value
KSTestGapAlone(t, c) ==
  IF t = <<>> \/ c = <<>>
  THEN [ks_statistic |-> Undefined, p_value |-> Undefined, warnings |-> {}]
  ELSE LET stat == Frac(KSGap(t, c), Len(t) * Len(c))
           p == KSPValue(t, c)
       IN [ks_statistic |-> stat,
           p_value |-> p,
           warnings |->
             (IF 100 * p.num < 5 * p.den THEN {"ks_test"} ELSE {})
               \cup (IF 10 * stat.num > stat.den THEN {"ks_statistic"} ELSE {})]

\* lines 482-497: the statistic, the p-value and the warnings of the KS test;
\* ks_2samp raises on an empty sample and the bare except sets both to None
KSTest(t, c) ==
  IF t = <<>> \/ c = <<>>
  THEN [ks_statistic |-> Undefined, p_value |-> Undefined, warnings |-> {}]
  ELSE LET stat == Frac(KSGap(t, c), Len(t) * Len(c))
           p == KSPValue(t, c)
           significant == 100 * p.num < 5 * p.den
       IN [ks_statistic |-> stat,
           p_value |-> p,
           warnings |->
             (IF significant THEN {"ks_test"} ELSE {})
               \cup (IF significant /\ 10 * stat.num > stat.den
                     THEN {"ks_statistic"} ELSE {})]

\* lines 461-508: the FeatureMetrics of a numeric feature; std_ratio is kept
\* squared
NumericMetrics(t, c) ==
  LET mean_ratio == Ratio(Mean(t), Mean(c))
      std_ratio_sq == Ratio(Variance(t), Variance(c))
      ks == KSTest(t, c)
  IN [mean_ratio |-> mean_ratio,
      std_ratio_sq |-> std_ratio_sq,
      ks_statistic |-> ks.ks_statistic,
      p_value |-> ks.p_value,
      warnings |->
        (IF MeanWarning(mean_ratio) THEN {"mean_ratio"} ELSE {})
          \cup (IF StdWarning(std_ratio_sq) THEN {"std_ratio"} ELSE {})
          \cup ks.warnings]

\* value_counts(): the distinct values, most frequent first, equally
\* frequent ones in the order of their first appearance
RECURSIVE ValueCounts(_, _)
ValueCounts(s, S) ==
  IF S = {} THEN <<>>
  ELSE LET first(v) == Min({i \in DOMAIN s : s[i] = v})
           top == CHOOSE v \in S :
                    \A w \in S :
                       \/ Occurrences(s, v) > Occurrences(s, w)
                       \/ /\ Occurrences(s, v) = Occurrences(s, w)
                          /\ first(v) <= first(w)
       IN <<top>> \o ValueCounts(s, S \ {top})

\* line 517
AllValues(t, c) == Range(t) \cup Range(c)

\* the length of a partition as a denominator of its proportions
Size(s) == IF s = <<>> THEN 1 ELSE Len(s)

\* test_dist.get(val, 0) - control_dist.get(val, 0), over Size(t) * Size(c)
DiffNum(t, c, v) == Occurrences(t, v) * Size(c) - Occurrences(c, v) * Size(t)

\* lines 518-528: the values whose proportions differ, with the difference
ProportionDiffs(t, c) ==
  [v \in {w \in AllValues(t, c) : DiffNum(t, c, w) # 0} |->
     Frac(DiffNum(t, c, v), Size(t) * Size(c))]

\* lines 531-533, for at least one value
MaxDiff(t, c) ==
  Frac(Max({Abs(DiffNum(t, c, v)) : v \in AllValues(t, c)}), Size(t) * Size(c))

\* the 0.95 quantiles of the chi-square distribution with 1..4 degrees of
\* freedom, in thousandths
ChiCritical == <<3841, 5991, 7815, 9488>>

RECURSIVE Product(_)
Product(s) == IF s = <<>> THEN 1 ELSE Head(s) * Product(Tail(s))

\* the chi-square statistic of lines 544-557 exceeds the critical value:
\* sum over the values of (test - control)^2 / control, every control
\* proportion being positive
ChiSquareSignificant(t, c) ==
  LET vals == ValueCounts(c, Range(c))
      b == [i \in DOMAIN vals |-> Occurrences(c, vals[i])]
      g == [i \in DOMAIN vals |-> DiffNum(t, c, vals[i])]
      others(i) == Product([j \in DOMAIN b |-> IF j = i THEN 1 ELSE b[j]])
  IN 1000 * Sum([i \in DOMAIN vals |-> g[i] * g[i] * others(i)])
       > ChiCritical[Len(vals) - 1] * Len(t) * Len(t) * Len(c) * Product(b)

\* a chi-square test that never finds a difference
ChiSquareNeverSignificant(t, c) == "not below 0.05"

\* lines 544-557: how the p-value of stats.chisquare compares with 0.05.
\* An empty partition makes the expected frequencies 0 * x or NaN and a
\* single value leaves no degree of freedom: the p-value is NaN.  A value
\* the control partition lacks has expected frequency 0: the statistic is
\* infinite and the p-value 0.
ChiSquare(t, c) ==
  IF t = <<>> \/ c = <<>> THEN "nan"
  ELSE IF \E v \in Range(t) : v \notin Range(c) THEN "below 0.05"
  ELSE IF Cardinality(Range(c)) = 1 THEN "nan"
  ELSE IF ChiSquareSignificant(t, c) THEN "below 0.05"
  ELSE "not below 0.05"

\* e^(n/10) in hundredths, n = 1..5
ExpTenth == <<111, 122, 135, 149, 165>>

\* stats.entropy(test_prop, control_prop) > 0.1 for two arrays of the same
\* length, taken position by position in value_counts order:
\* sum of p * ln(p / q) > 0.1, with p = a / n and q = b / m
EntropyAbove(t, c) ==
  LET pv == ValueCounts(t, Range(t))
      qv == ValueCounts(c, Range(c))
      a == [i \in DOMAIN pv |-> Occurrences(t, pv[i])]
      b == [i \in DOMAIN qv |-> Occurrences(c, qv[i])]
      n == Len(t)
      m == Len(c)
      power(x, k) == Product([j \in 1..k |-> x])
  IN 100 * power(m, n) * Product([i \in DOMAIN a |-> power(a[i], a[i])])
       > ExpTenth[n] * power(n, n)
           * Product([i \in DOMAIN a |-> power(b[i], a[i])])

\* lines 564-572: js_div against 0.1.  For arrays of different lengths the
\* scipy build decides: entropy raises (js_div None) or broadcasts them.
JSOutcomes(t, c) ==
  IF Cardinality(Range(t)) = Cardinality(Range(c)) /\ t # <<>>
  THEN {IF EntropyAbove(t, c) THEN "above 0.1" ELSE "not above 0.1"}
  ELSE {"None", "nan", "above 0.1", "not above 0.1"}

\* lines 511-579: the FeatureMetrics of a categorical feature with at least
\* one observed value, for an outcome js of the entropy
CategoricalMetrics(t, c, js) ==
  [proportion_diffs |-> ProportionDiffs(t, c),
   max_diff |-> MaxDiff(t, c),
   p_value |-> ChiSquare(t, c),
   js_divergence |-> js,
   warnings |->
     (IF 20 * MaxDiff(t, c).num > MaxDiff(t, c).den
      THEN {"distribution"} ELSE {})
       \cup (IF ChiSquare(t, c) = "below 0.05" THEN {"p_value"} ELSE {})
       \cup (IF js = "above 0.1" THEN {"js_divergence"} ELSE {})]

\* lines 457-458: the values of column f for the users of a partition
PartitionValues(t, users, f) ==
  LET rows == SelectSeq(t, LAMBDA r : r.user \in Range(users))
  IN [i \in DOMAIN rows |-> rows[i][f]]

\* ------------------------------------------------- split_via_stratification
stratVars == <<data, classes, rnum, per_label_data, size, subset_sizes,
               per_label_subset_sizes, sorted_labels, stratified_data_ids,
               label, encoded_ids>>

\* line 347: drop_duplicates without inplace returns a new DataFrame
DropDuplicatesInPlace == "caller's table"

DropDuplicatesObject == "new table"

\* lines 346-367: de-duplication, the default ratio, the feature lists
Prepare ==
  /\ caller = "split"
  /\ pc = "split"
  /\ df' = DropDuplicatesLast(input)
  /\ df_object' = DropDuplicatesObject
  /\ rnum' = IF split_ratio = 0 THEN RatioDen ELSE split_ratio
  /\ numeric_features' =
       SelectSeq(TableColumns(input),
                 LAMBDA c : /\ c \notin Range(exclude_cols) \cup Range(binning_cols)
                            /\ DType(c) \in {"int64", "float64"})
  /\ cat_features' =
       SelectSeq(TableColumns(input),
                 LAMBDA c : /\ c \notin Range(exclude_cols) \cup Range(binning_cols)
                            /\ DType(c) \in {"object", "category"})
  /\ log' = IF Len(DropDuplicatesLast(input)) # Len(input)
             THEN Append(log, "warning: duplicating rows")
             ELSE log
  /\ pc' = "binning"
  /\ UNCHANGED <<caller, encVars, audience_mode, gatewayVars, metrics, distributions, binVars, input, split_ratio, encoded, users_test, users_control,
                 data, classes, per_label_data, size, subset_sizes,
                 per_label_subset_sizes, sorted_labels, stratified_data_ids,
                 label, encoded_ids>>

\* lines 370-373: both binning columns
RECURSIVE AddBins(_, _)
AddBins(t, cols) ==
  IF cols = <<>> THEN t
  ELSE LET col == Head(cols)
           edges == binsify(Column(t, col), NoPercentile)
           binned == [i \in DOMAIN t |->
                        t[i] @@ (BinColumn(col) :> Bucket(edges, t[i][col]))]
       IN AddBins(binned, Tail(cols))

Binning ==
  /\ caller = "split"
  /\ pc = "binning"
  /\ df # <<>>
  /\ df' = AddBins(df, binning_cols)
  /\ input' = IF df_object = "caller's table" THEN df' ELSE input
  /\ numeric_features' =
       numeric_features \o [k \in DOMAIN binning_cols |-> BinColumn(binning_cols[k])]
  /\ pc' = "encode"
  /\ UNCHANGED <<caller, laterVars, binVars, split_ratio, cat_features, encoded, users_test,
                 users_control, stratVars>>

\* lines 379-380
Encode ==
  /\ caller = "split"
  /\ pc = "encode"
  /\ encoded' = make_encoding(df, exclude_cols, ColumnsWithBins(df))
  /\ cat_features' = CategoricalColumns(ColumnsWithBins(df), exclude_cols)
  /\ pc' = "offset"
  /\ UNCHANGED <<caller, laterVars, binVars, input, split_ratio, df, numeric_features, users_test,
                 users_control, stratVars>>

\* line 382
Offset ==
  /\ caller = "split"
  /\ pc = "offset"
  /\ encoded' = offset_features(encoded, cat_features, numeric_features)
  /\ pc' = "labels"
  /\ UNCHANGED <<caller, laterVars, binVars, input, split_ratio, df, numeric_features, cat_features,
                 users_test, users_control, stratVars>>

\* line 387: the columns the label lists are built from
LabelColumns(t) ==
  SelectSeq(ColumnsWithBins(t),
            LAMBDA c : c \notin {"user", "n_sessions", "days_since_install"})

\* lines 390-391: one row's label list
RowLabels(t, row) ==
  [k \in DOMAIN LabelColumns(t) |->
     LET c == LabelColumns(t)[k]
     IN IF DType(c) = "bool" THEN (IF row[c] THEN "True" ELSE "False")
        ELSE IF DType(c) = "category" THEN row[c]
        ELSE Str(row[c])]

\* lines 385-396: the class universe, the label lists, the call of stratify
Labels ==
  /\ caller = "split"
  /\ pc = "labels"
  /\ classes' = get_unique_values(encoded, numeric_features \o cat_features)
  /\ data' = [i \in 0..(Len(encoded) - 1) |-> RowLabels(df, encoded[i + 1])]
  /\ pc' = "stratify"
  /\ UNCHANGED <<caller, laterVars, binVars, splitVars, rnum, per_label_data, size, subset_sizes,
                 per_label_subset_sizes, sorted_labels, stratified_data_ids,
                 label, encoded_ids>>

IndexLabels(t) == {t[i].index : i \in DOMAIN t}

\* encoded.loc[test_ids, ['user']]: the rows whose index LABEL is in test_ids
LocUsers(t, ids) ==
  [k \in DOMAIN ids |-> (CHOOSE r \in Range(t) : r.index = ids[k]).user]

\* ControlUsers without the ~isin filter
ControlUsersUnfiltered(t, test_users) == [k \in DOMAIN t |-> t[k].user]

\* lines 401-402: the users of the rows whose user is not in users_test
ControlUsers(t, test_users) ==
  LET kept == SelectSeq(t, LAMBDA r : r.user \notin Range(test_users))
  IN [k \in DOMAIN kept |-> kept[k].user]

\* lines 399-402: users_test by label lookup, users_control as the rest
Slice ==
  /\ caller = "split"
  /\ pc = "returned"
  /\ Range(encoded_ids[0]) \subseteq IndexLabels(encoded)
  /\ users_test' = LocUsers(encoded, encoded_ids[0])
  /\ users_control' = ControlUsers(encoded, LocUsers(encoded, encoded_ids[0]))
  /\ pc' = "sliced"
  /\ UNCHANGED <<caller, laterVars, binVars, input, split_ratio, df, numeric_features, cat_features,
                 encoded, stratVars>>

\* line 400: .loc with a label that is not in the index raises KeyError
SliceKeyError ==
  /\ caller = "split"
  /\ pc = "returned"
  /\ ~(Range(encoded_ids[0]) \subseteq IndexLabels(encoded))
  /\ pc' = "KeyError"
  /\ UNCHANGED <<caller, laterVars, binVars, splitVars, stratVars>>

\* lines 370-380 for a table without rows: np.quantile of an empty array
\* raises IndexError; where numpy returns nan instead, the fit of the
\* OrdinalEncoder at line 95 raises ValueError for want of a sample
EmptyTableRaises ==
  /\ caller = "split"
  /\ pc = "binning"
  /\ df = <<>>
  /\ pc' \in {"IndexError", "ValueError"}
  /\ UNCHANGED <<caller, laterVars, binVars, splitVars, stratVars>>

\* f'{x:.0f}' of a float kept in tenths: to the nearest integer, a half to
\* the even one
FormatF0(x) ==
  LET q == x \div 10
      r == x % 10
  IN ToString(IF r < 5 THEN q
              ELSE IF r > 5 THEN q + 1
              ELSE IF q % 2 = 0 THEN q ELSE q + 1)

\* bins[k] of Python for a list held as a sequence: a negative k counts from
\* the end
PyIndex(s, k) == IF k < 0 THEN s[Len(s) + k + 1] ELSE s[k + 1]

\* lines 632-638: the label of bin number i; ">=" stands for the sign of
\* line 636
BinLabel(edges, i) ==
  IF i = 1 THEN "0-" \o FormatF0(PyIndex(edges, 1))
  ELSE IF i = Len(edges) THEN ">=" \o FormatF0(PyIndex(edges, -1))
  ELSE FormatF0(PyIndex(edges, i - 1)) \o "-" \o FormatF0(PyIndex(edges, i))

\* line 629: feat.replace('_bins', '')
OriginalColumn(feat) ==
  IF \E c \in Range(binning_cols) : BinColumn(c) = feat
  THEN CHOOSE c \in Range(binning_cols) : BinColumn(c) = feat
  ELSE feat

\* lines 616-626 and 650-658: the share of every value of all in the
\* partition, 0 for a value the partition lacks
Aligned(s, all) ==
  [k \in DOMAIN all |-> Frac(Occurrences(s, all[k]), Size(s))]

\* lines 615-647: the DistributionData of a numeric feature
NumericDistribution(t, test, control, feat) ==
  LET all_bins == Sorted(Range(PartitionValues(t, test, feat))
                           \cup Range(PartitionValues(t, control, feat)))
      edges == binsify(Column(t, OriginalColumn(feat)), NoPercentile)
  IN [is_numeric |-> TRUE,
      categories |-> [k \in DOMAIN all_bins |-> BinLabel(edges, all_bins[k])],
      test_distribution |-> Aligned(PartitionValues(t, test, feat), all_bins),
      control_distribution |->
        Aligned(PartitionValues(t, control, feat), all_bins)]

\* lines 649-666: the DistributionData of a categorical feature
CategoricalDistribution(t, test, control, feat) ==
  LET seen == Range(PartitionValues(t, test, feat))
                \cup Range(PartitionValues(t, control, feat))
      all_values == SelectSeq(CategoryOrder, LAMBDA v : v \in seen)
  IN [is_numeric |-> FALSE,
      categories |-> all_values,
      test_distribution |-> Aligned(PartitionValues(t, test, feat), all_values),
      control_distribution |->
        Aligned(PartitionValues(t, control, feat), all_values)]

\* lines 594-668
prepare_distribution_data(t, test, control, nums, cats) ==
  [f \in Range(nums) \cup Range(cats) |->
     IF f \in Range(nums) THEN NumericDistribution(t, test, control, f)
     ELSE CategoricalDistribution(t, test, control, f)]

\* lines 427-591 for a table in which every categorical feature has a value:
\* the results the call can return, one per outcome of the entropies
get_split_metrics(t, test, control, nums, cats) ==
  {[f \in Range(nums) \cup Range(cats) |->
      IF f \in Range(nums)
      THEN NumericMetrics(PartitionValues(t, test, f),
                          PartitionValues(t, control, f))
      ELSE CategoricalMetrics(PartitionValues(t, test, f),
                              PartitionValues(t, control, f), js[f])] :
     js \in {j \in [Range(cats) -> {"None", "nan", "above 0.1", "not above 0.1"}] :
               \A f \in Range(cats) :
                  j[f] \in JSOutcomes(PartitionValues(t, test, f),
                                      PartitionValues(t, control, f))}}

\* lines 632-638 for a numeric feature that was not binned: its raw values
\* are read as bin numbers, and bins[i] does not exist for a value beyond the
\* list of edges
LabelIndexFails(t, nums) ==
  \E k \in DOMAIN nums : \E i \in Range(Column(t, nums[k])) :
     LET edges == binsify(Column(t, OriginalColumn(nums[k])), NoPercentile)
     IN i # 1 /\ i # Len(edges) /\ (i >= Len(edges) \/ i - 1 < 0 - Len(edges))

\* lines 406-416 and 638: bins[i] raises IndexError
SummarizeIndexError ==
  /\ caller = "split"
  /\ pc = "sliced"
  /\ LabelIndexFails(df, numeric_features)
  /\ pc' = "IndexError"
  /\ UNCHANGED <<caller, laterVars, binVars, splitVars, stratVars>>

\* lines 406-424: the metrics, the distributions and the return
Summarize ==
  /\ caller = "split"
  /\ pc = "sliced"
  /\ ~LabelIndexFails(df, numeric_features)
  /\ metrics' \in get_split_metrics(df, users_test, users_control,
                                    numeric_features, cat_features)
  /\ distributions' = prepare_distribution_data(df, users_test, users_control,
                                                numeric_features, cat_features)
  /\ pc' = "split_returned"
  /\ UNCHANGED <<caller, encVars, audience_mode, gatewayVars, log, df_object, binVars,
                 splitVars, stratVars>>

\* stratify runs inside the call.  OuterBreak is left out: every row carries
\* one label per feature column, so as long as size > 0 some label has a user
\* left (LabelsNeverRunOut below).
SplitNext ==
  \/ Prepare
  \/ Binning
  \/ EmptyTableRaises
  \/ Encode
  \/ Offset
  \/ Labels
  \/ StratifyEnter
  \/ OuterSelect
  \/ OuterExit
  \/ InnerAssign
  \/ InnerExit
  \/ StratifyReturn
  \/ Slice
  \/ SliceKeyError
  \/ Summarize

\* ---------------------------------------------------------- split: inputs
\* the feature values of the four users of test_split_via_stratification
Profiles ==
  { [days_since_install |-> 1088, n_sessions |-> 10, brand |-> "Apple", src |-> "Web"],
    [days_since_install |-> 720, n_sessions |-> 12, brand |-> "Apple", src |-> "Mobile"],
    [days_since_install |-> 555, n_sessions |-> 15, brand |-> "Samsung", src |-> "Web"],
    [days_since_install |-> 873, n_sessions |-> 16, brand |-> "Samsung", src |-> "Mobile"] }

UserName(k) == "user" \o ToString(k)

\* user columns up to renaming: a row names a user seen before or the next
\* new one
UserColumns(n) ==
  {u \in [1..n -> 1..n] :
     /\ u[1] = 1
     /\ \A i \in 2..n : u[i] <= Max({u[j] : j \in 1..(i - 1)}) + 1}

MakeRow(i, u, f) ==
  [index |-> i - 1, user |-> UserName(u),
   days_since_install |-> f.days_since_install, n_sessions |-> f.n_sessions,
   brand |-> f.brand, src |-> f.src]

Tables(n) ==
  {[i \in 1..n |-> MakeRow(i, u[i], f[i])] :
     u \in UserColumns(n), f \in [1..n -> Profiles]}

\* the table of test_split_via_stratification
ScenarioTable ==
  << MakeRow(1, 1, [days_since_install |-> 1088, n_sessions |-> 10,
                    brand |-> "Apple", src |-> "Web"]),
     MakeRow(2, 2, [days_since_install |-> 720, n_sessions |-> 12,
                    brand |-> "Apple", src |-> "Mobile"]),
     MakeRow(3, 3, [days_since_install |-> 555, n_sessions |-> 15,
                    brand |-> "Samsung", src |-> "Web"]),
     MakeRow(4, 4, [days_since_install |-> 873, n_sessions |-> 16,
                    brand |-> "Samsung", src |-> "Mobile"]) >>

SplitInit ==
  /\ caller = "split"
  /\ pc = "split"
  /\ input \in {<<>>, ScenarioTable} \cup UNION {Tables(n) : n \in 1..MaxRows}
  /\ split_ratio \in {0} \cup {2 * k : k \in 1..(RatioDen - 1)}
  /\ df = None
  /\ numeric_features = None
  /\ cat_features = None
  /\ encoded = None
  /\ users_test = None
  /\ users_control = None
  /\ values = None
  /\ percentile = None
  /\ bins = None
  /\ buckets = None
  /\ LaterIdle
  /\ data = None
  /\ classes = None
  /\ rnum = 0
  /\ per_label_data = <<>>
  /\ size = 0
  /\ subset_sizes = <<>>
  /\ per_label_subset_sizes = <<>>
  /\ sorted_labels = <<>>
  /\ stratified_data_ids = <<>>
  /\ label = None
  /\ encoded_ids = <<>>

SpecSplit == SplitInit /\ [][SplitNext]_vars

\* ------------------------------------- tables with one more feature column
\* rows of such a table: 1..MaxExtraRows
MaxExtraRows == 2

\* values of the additional column, by its storage type
ExtraValues(c) ==
  IF DType(c) = "bool" THEN {TRUE, FALSE}
  ELSE IF DType(c) = "category" THEN {"A", "B"}
  ELSE IF DType(c) = "object" THEN {"DE", "US"}
  ELSE {2, 5}

ExtraTables ==
  UNION { UNION {
    {[i \in 1..n |-> MakeRow(i, i, f[i]) @@ (c :> x[i])] :
       f \in [1..n -> Profiles], x \in [1..n -> ExtraValues(c)]}
    : c \in Range(ExtraColumns)} : n \in 1..MaxExtraRows}

ExtraInit ==
  /\ caller = "split"
  /\ pc = "split"
  /\ input \in ExtraTables
  /\ split_ratio = 0
  /\ df = None
  /\ numeric_features = None
  /\ cat_features = None
  /\ encoded = None
  /\ users_test = None
  /\ users_control = None
  /\ values = None
  /\ percentile = None
  /\ bins = None
  /\ buckets = None
  /\ LaterIdle
  /\ data = None
  /\ classes = None
  /\ rnum = 0
  /\ per_label_data = <<>>
  /\ size = 0
  /\ subset_sizes = <<>>
  /\ per_label_subset_sizes = <<>>
  /\ sorted_labels = <<>>
  /\ stratified_data_ids = <<>>
  /\ label = None
  /\ encoded_ids = <<>>

ExtraNext ==
  \/ Prepare
  \/ Binning
  \/ Encode
  \/ Offset
  \/ Labels
  \/ StratifyEnter
  \/ OuterSelect
  \/ OuterExit
  \/ InnerAssign
  \/ InnerExit
  \/ StratifyReturn
  \/ Slice
  \/ Summarize
  \/ SummarizeIndexError

SpecExtraColumn == ExtraInit /\ [][ExtraNext]_vars

\* the break of lines 198-199 is never taken inside split_via_stratification
LabelsNeverRunOut ==
  (caller = "split" /\ pc = "outer" /\ size > 0) => AvailableLabels # <<>>

\* ----------------------------------- claims about split_via_stratification
DistinctUsers(t) == {t[i].user : i \in DOMAIN t}

HasDuplicates(t) == Cardinality(DistinctUsers(t)) < Len(t)

\* the users at the row POSITIONS ids of the table
UsersAt(t, ids) == {t[i + 1].user : i \in Range(ids)}

\* C1: whenever split_via_stratification returns, users_test and
\* users_control have no user in common and together hold exactly the
\* distinct users of the input, for duplicated or unique users, every ratio
\* and every resolution of the choices of stratify.
C1_PartitionsDisjointExhaustive ==
  (caller = "split" /\ pc = "sliced") =>
    /\ Range(users_test) \cap Range(users_control) = {}
    /\ Range(users_test) \cup Range(users_control) = DistinctUsers(input)

\* a returned split of a table with a duplicated user and both partitions
\* occupied
C1_Witness ==
  /\ caller = "split"
  /\ pc = "sliced"
  /\ HasDuplicates(input)
  /\ users_test # <<>>
  /\ users_control # <<>>

\* C2: splitting a table with duplicated users completes without error and
\* puts every user in the partition stratify chose for the user's row: the
\* positions stratify returns are the positions of the users in the
\* de-duplicated table.
C2_DuplicatesSplitLikeDeduplicated ==
  (caller = "split" /\ HasDuplicates(input)) =>
    /\ pc # "KeyError"
    /\ pc = "sliced" =>
         /\ Range(users_test) = UsersAt(encoded, encoded_ids[0])
         /\ Range(users_control) = UsersAt(encoded, encoded_ids[1])

FeatureValues(t, c) == {t[i][c] : i \in DOMAIN t}

\* C7: the four users of test_split_via_stratification at ratio 0.5 always
\* come out as 2 test and 2 control users, no user in both, the two
\* partitions together holding every brand and every source of the table.
C7_ScenarioBalanced ==
  (caller = "split" /\ pc = "sliced" /\ input = ScenarioTable /\ rnum = RatioDen) =>
    LET chosen == {r \in Range(input) :
                     r.user \in Range(users_test) \cup Range(users_control)}
    IN /\ Len(users_test) = 2
       /\ Len(users_control) = 2
       /\ Range(users_test) \cap Range(users_control) = {}
       /\ {r.brand : r \in chosen} = FeatureValues(input, "brand")
       /\ {r.src : r \in chosen} = FeatureValues(input, "src")

\* the scenario has been split at ratio 0.5 with user1 in the test partition
C7_Witness ==
  /\ caller = "split"
  /\ pc = "sliced"
  /\ input = ScenarioTable
  /\ rnum = RatioDen
  /\ "user1" \in Range(users_test)

\* C8: after encoding and offset_features, any two distinct stratification
\* feature columns (numeric, binned or categorical) have no value in common
\* in the encoded table.
C8_OffsetColumnsDisjoint ==
  (caller = "split" /\ pc = "labels") =>
    \A a, b \in Range(numeric_features \o cat_features) :
      a # b => FeatureValues(encoded, a) \cap FeatureValues(encoded, b) = {}

\* ------------------------------------------- make_encoding, called directly
\* columns of a table passed to make_encoding: 1..MaxEncCols
MaxEncCols == 3

\* A frame is a DataFrame: its column names in order, its row index, and the
\* dtype and the cells of every column.  A cell carries the Python type of
\* its value and the value as an integer: an int as itself, a float in
\* tenths, a bool as 0/1, a string as its position in StringOrder.
Cell(k, v) == [kind |-> k, val |-> v]

NA == Cell("na", 0)

\* the strings of the tables, in sorted order
StringOrder == <<"Apple", "Huawei", "Samsung", "u1", "u2">>

StrCell(s) == Cell("str", CHOOSE k \in DOMAIN StringOrder : StringOrder[k] = s)

\* the columns of the tables of test_sampling_encoding.py, two rows each
EncPool == <<"user", "brand", "age", "float_col", "bool_col",
             "days_since_install">>

PoolDType ==
  [user |-> "object", brand |-> "object", age |-> "int64",
   float_col |-> "float64", bool_col |-> "bool",
   days_since_install |-> "Int64"]

PoolCells ==
  [user |-> <<StrCell("u1"), StrCell("u2")>>,
   brand |-> <<StrCell("Samsung"), StrCell("Apple")>>,
   age |-> <<Cell("int", 25), Cell("int", 30)>>,
   float_col |-> <<Cell("float", 11), Cell("float", 22)>>,
   bool_col |-> <<Cell("bool", 1), Cell("bool", 0)>>,
   days_since_install |-> <<Cell("int", 1), NA>>]

Frame(cols) ==
  [columns |-> cols,
   index |-> <<"a", "b">>,
   dtype |-> [c \in Range(cols) |-> PoolDType[c]],
   cells |-> [c \in Range(cols) |-> PoolCells[c]]]

\* the tables of one to MaxEncCols columns
EncFrames ==
  {Frame([k \in 1..Cardinality(S) |-> EncPool[Sorted(S)[k]]]) :
     S \in {T \in SUBSET DOMAIN EncPool :
              Cardinality(T) \in 1..MaxEncCols}}

\* the lists of distinct names out of S
DistinctSeqs(S) ==
  UNION {{s \in [1..n -> S] : \A i, j \in 1..n : i # j => s[i] # s[j]} :
           n \in 1..Cardinality(S)}

\* df[cols]
Select(f, cols) ==
  [columns |-> cols,
   index |-> f.index,
   dtype |-> [c \in Range(cols) |-> f.dtype[c]],
   cells |-> [c \in Range(cols) |-> f.cells[c]]]

\* lines 53, 55: some name of cols is not a column of f
Missing(f, cols) == \E k \in DOMAIN cols : cols[k] \notin Range(f.columns)

\* lines 59-61
cat_ix(f, exclude) ==
  SelectSeq(f.columns,
            LAMBDA c : c \notin Range(exclude) /\ f.dtype[c] = "object")

\* line 75: astype('float64').fillna(-999)
FillCell(x) == IF x = NA THEN Cell("float", -9990) ELSE Cell("float", 10 * x.val)

\* lines 65-75, on the table the caller passed
FillNullable(f) ==
  [f EXCEPT
     !.dtype = [c \in DOMAIN @ |-> IF @[c] = "Int64" THEN "float64" ELSE @[c]],
     !.cells = [c \in DOMAIN @ |->
                  IF f.dtype[c] = "Int64"
                  THEN [i \in DOMAIN @[c] |-> FillCell(@[c][i])]
                  ELSE @[c]]]

\* OrdinalEncoder: the rank of the value among the sorted values of its column
OrdinalRank(col, x) ==
  Cardinality({col[i].val : i \in DOMAIN col} \cap {v \in 0..x.val : v < x.val})

\* a value of a float64 array
AsFloat(x) == IF x.kind = "float" THEN x ELSE Cell("float", 10 * x.val)

\* float to int, towards zero
Truncate(v) == IF v >= 0 THEN v \div 10 ELSE 0 - ((0 - v) \div 10)

RaisesError == Cell("error", 0)

\* Series.astype: the cell of a column converted to dtype d
AsType(x, d) ==
  CASE d = "object" -> x
    [] d = "int64" ->
         IF x.kind = "str" THEN RaisesError
         ELSE IF x.kind = "float" THEN Cell("int", Truncate(x.val))
         ELSE Cell("int", x.val)
    [] d = "float64" ->
         IF x.kind = "str" THEN RaisesError ELSE AsFloat(x)
    [] d = "bool" ->
         IF x.kind = "str" THEN Cell("bool", 1)
         ELSE Cell("bool", IF x.val = 0 THEN 0 ELSE 1)

\* line 88-89: the columns the ColumnTransformer passes through, in the
\* order of the table
Passthrough(f, cats) == SelectSeq(f.columns, LAMBDA c : c \notin Range(cats))

\* line 99: the transformed array, column by column: the encoded columns
\* first, then the remainder; one object column makes the array an object
\* array, otherwise it is a float64 array
Transformed(f, cats) ==
  LET rest == Passthrough(f, cats)
      codes == [k \in DOMAIN cats |->
                  [i \in DOMAIN f.index |->
                     Cell("float",
                          10 * OrdinalRank(f.cells[cats[k]], f.cells[cats[k]][i]))]]
      kept == [k \in DOMAIN rest |-> f.cells[rest[k]]]
      numeric == \A k \in DOMAIN rest : f.dtype[rest[k]] # "object"
  IN codes \o [k \in DOMAIN kept |->
                 IF numeric THEN [i \in DOMAIN kept[k] |-> AsFloat(kept[k][i])]
                 ELSE kept[k]]

\* line 104
non_cat_cols(all, cats) == SelectSeq(all, LAMBDA c : c \notin Range(cats))

\* position of a name in a list of distinct names
PosIn(names, c) == CHOOSE k \in DOMAIN names : names[k] = c

\* lines 106-111: the array under the names cat_ix + non_cat_cols, the other
\* columns cast to the dtype the table has for that name, the encoded ones
\* to int
result_df(f, all, cats) ==
  LET names == cats \o non_cat_cols(all, cats)
      array == Transformed(f, cats)
      to(c) == IF c \in Range(cats) THEN "int64" ELSE f.dtype[c]
  IN [columns |-> names,
      index |-> f.index,
      dtype |-> [c \in Range(names) |-> to(c)],
      cells |-> [c \in Range(names) |->
                   [i \in DOMAIN f.index |->
                      AsType(array[PosIn(names, c)][i], to(c))]]]

\* line 106: pandas refuses names that do not match the array's width
ShapeMismatch(f, all, cats) ==
  Len(cats \o non_cat_cols(all, cats)) # Len(f.columns)

\* line 109: a cast fails on a value
CastFails(r) ==
  \E c \in Range(r.columns) : \E i \in DOMAIN r.index :
     r.cells[c][i] = RaisesError

encIdle == <<binVars, stratVars, split_ratio, numeric_features, users_test,
             users_control, caller, input, enc_all_cols, enc_exclude_cols,
             audience_mode, gatewayVars, log, df_object, metrics, distributions>>

\* a make_encoding that validates only after converting the nullable columns
EncRaiseAfterFill ==
  /\ pc = "make_encoding"
  /\ Missing(df, enc_all_cols) \/ Missing(df, enc_exclude_cols)
  /\ df' = FillNullable(df)
  /\ pc' = "ValueError"
  /\ UNCHANGED <<encIdle, encoded, cat_features>>

\* lines 53-56
EncRaiseValueError ==
  /\ pc = "make_encoding"
  /\ Missing(df, enc_all_cols) \/ Missing(df, enc_exclude_cols)
  /\ pc' = "ValueError"
  /\ UNCHANGED <<encIdle, df, encoded, cat_features>>

\* lines 53-75
EncFillNullable ==
  /\ pc = "make_encoding"
  /\ ~Missing(df, enc_all_cols)
  /\ ~Missing(df, enc_exclude_cols)
  /\ df' = FillNullable(df)
  /\ pc' = "encoding"
  /\ UNCHANGED <<encIdle, encoded, cat_features>>

\* lines 77-79
EncReturnPlain ==
  /\ pc = "encoding"
  /\ cat_ix(df, enc_exclude_cols) = <<>>
  /\ encoded' = Select(df, enc_all_cols)
  /\ cat_features' = <<>>
  /\ pc' = "encoded"
  /\ UNCHANGED <<encIdle, df>>

\* lines 81-107: the DataFrame constructor raises
EncShapeError ==
  /\ pc = "encoding"
  /\ cat_ix(df, enc_exclude_cols) # <<>>
  /\ ShapeMismatch(df, enc_all_cols, cat_ix(df, enc_exclude_cols))
  /\ pc' = "ValueError"
  /\ UNCHANGED <<encIdle, df, encoded, cat_features>>

\* lines 81-109: astype raises
EncCastError ==
  /\ pc = "encoding"
  /\ cat_ix(df, enc_exclude_cols) # <<>>
  /\ ~ShapeMismatch(df, enc_all_cols, cat_ix(df, enc_exclude_cols))
  /\ CastFails(result_df(df, enc_all_cols, cat_ix(df, enc_exclude_cols)))
  /\ pc' = "ValueError"
  /\ UNCHANGED <<encIdle, df, encoded, cat_features>>

\* lines 81-116
EncReturnEncoded ==
  /\ pc = "encoding"
  /\ cat_ix(df, enc_exclude_cols) # <<>>
  /\ ~ShapeMismatch(df, enc_all_cols, cat_ix(df, enc_exclude_cols))
  /\ ~CastFails(result_df(df, enc_all_cols, cat_ix(df, enc_exclude_cols)))
  /\ encoded' = Select(result_df(df, enc_all_cols, cat_ix(df, enc_exclude_cols)),
                       enc_all_cols)
  /\ cat_features' = cat_ix(df, enc_exclude_cols)
  /\ pc' = "encoded"
  /\ UNCHANGED <<encIdle, df>>

EncNext ==
  \/ EncRaiseValueError
  \/ EncFillNullable
  \/ EncReturnPlain
  \/ EncShapeError
  \/ EncCastError
  \/ EncReturnEncoded

EncInit ==
  /\ caller = "make_encoding"
  /\ pc = "make_encoding"
  /\ input \in EncFrames
  /\ df = input
  /\ enc_all_cols \in DistinctSeqs(Range(input.columns) \cup {"nonexistent"})
  /\ enc_exclude_cols \in
       {<<>>} \cup {<<c>> : c \in Range(input.columns) \cup {"nonexistent"}}
  /\ encoded = None
  /\ cat_features = None
  /\ audience_mode = None
  /\ GatewayIdle
  /\ log = <<>>
  /\ df_object = None
  /\ metrics = <<>>
  /\ distributions = <<>>
  /\ split_ratio = 0
  /\ numeric_features = None
  /\ users_test = None
  /\ users_control = None
  /\ values = None
  /\ percentile = None
  /\ bins = None
  /\ buckets = None
  /\ data = None
  /\ classes = None
  /\ rnum = 0
  /\ per_label_data = <<>>
  /\ size = 0
  /\ subset_sizes = <<>>
  /\ per_label_subset_sizes = <<>>
  /\ sorted_labels = <<>>
  /\ stratified_data_ids = <<>>
  /\ label = None
  /\ encoded_ids = <<>>

SpecEncoding == EncInit /\ [][EncNext]_vars

\* the call names a column the caller's table does not have
NamesAbsentColumn ==
  \/ \E k \in DOMAIN enc_all_cols : enc_all_cols[k] \notin Range(input.columns)
  \/ \E k \in DOMAIN enc_exclude_cols :
        enc_exclude_cols[k] \notin Range(input.columns)

\* C11: a call of make_encoding whose all_cols or exclude_cols names a column
\* absent from the table can only raise ValueError, and that step leaves the
\* caller's table as it was and returns nothing.
C11_AbsentColumnRaisesFirst ==
  /\ [](pc = "make_encoding" /\ NamesAbsentColumn => ENABLED EncRaiseValueError)
  /\ [][pc = "make_encoding" /\ NamesAbsentColumn =>
          /\ pc' = "ValueError"
          /\ df' = input
          /\ encoded' = None
          /\ cat_features' = None]_vars

\* an absent name in all_cols of a table with a nullable column was refused
C11_Witness ==
  /\ pc = "ValueError"
  /\ \E k \in DOMAIN enc_all_cols : enc_all_cols[k] = "nonexistent"
  /\ "days_since_install" \in Range(input.columns)
  /\ df = input

\* the columns of the result that were not reported as categorical
OtherColumns == {c \in Range(encoded.columns) : c \notin Range(cat_features)}

\* C12: in every returned table the row index is the input's, every column
\* not reported as categorical has the dtype and the values it has in the
\* input, and every column reported as categorical is integer-typed.
C12_IndexDtypesValuesPreserved ==
  pc = "encoded" =>
    /\ encoded.index = input.index
    /\ \A c \in OtherColumns :
          /\ encoded.dtype[c] = input.dtype[c]
          /\ encoded.cells[c] = input.cells[c]
    /\ \A c \in Range(encoded.columns) \cap Range(cat_features) :
          encoded.dtype[c] = "int64"

\* the nullable-integer column of the input has a missing value
HasMissing(f, c) == \E i \in DOMAIN f.index : f.cells[c][i] = NA

\* C13: a nullable-integer column with a missing value comes back without
\* missing values and with an integer dtype.
C13_NullableComesBackInteger ==
  pc = "encoded" =>
    \A c \in Range(encoded.columns) :
       input.dtype[c] = "Int64" /\ HasMissing(input, c) =>
         /\ ~HasMissing(encoded, c)
         /\ encoded.dtype[c] \in {"int64", "Int64"}

\* the value an encoded cell stands for in the input: the string whose rank
\* among the column's values is the code
IsCodeOf(col, i, x) == x = Cell("int", OrdinalRank(col, col[i]))

\* C14: a call that names only existing columns returns; the table's columns
\* are all_cols; a column not reported as categorical holds the values of the
\* input's column of that name (a nullable column its filled values); a
\* categorical column holds its integer codes; the second result is the list
\* of the object columns outside exclude_cols.
C14_ColumnsAreAllCols ==
  pc \in {"encoded", "ValueError"} /\ ~NamesAbsentColumn =>
    /\ pc = "encoded"
    /\ encoded.columns = enc_all_cols
    /\ cat_features = cat_ix(input, enc_exclude_cols)
    /\ \A c \in Range(enc_all_cols) :
          IF c \in Range(cat_features)
          THEN \A i \in DOMAIN input.index :
                  IsCodeOf(input.cells[c], i, encoded.cells[c][i])
          ELSE encoded.cells[c] = FillNullable(input).cells[c]

\* --------------------------------------------- run_sampling_for_audience
\* middleware.py lines 47-92: the step that yields users_new_test and
\* users_new_control (held in users_test and users_control); the table is
\* what sample_audience_users returned.  The gateway calls of lines 94-110
\* store and reload tables of the warehouse and are outside the model.

\* line 47-48
SamplingOff ==
  /\ caller = "run_sampling_for_audience"
  /\ pc = "run_sampling"
  /\ audience_mode = "off"
  /\ pc' = "returned_none"
  /\ UNCHANGED <<caller, encVars, audience_mode, gatewayVars, log, df_object, metrics, distributions, binVars, splitVars,
                 stratVars>>

\* lines 59, 77-82: an empty segment is not split
SamplingEmpty ==
  /\ caller = "run_sampling_for_audience"
  /\ pc = "run_sampling"
  /\ audience_mode = "test"
  /\ input = <<>>
  /\ log' = Append(log, "warning: segment contains no users")
  /\ users_test' = <<>>
  /\ users_control' = <<>>
  /\ pc' = "sampled"
  /\ UNCHANGED <<caller, encVars, audience_mode, gatewayVars, df_object, metrics,
                 distributions, binVars, input, split_ratio,
                 df, numeric_features, cat_features, encoded, stratVars>>

\* a run_sampling_for_audience that splits the empty segment as well
SamplingCallSplitAlways ==
  /\ caller = "run_sampling_for_audience"
  /\ pc = "run_sampling"
  /\ audience_mode = "test"
  /\ caller' = "split"
  /\ pc' = "split"
  /\ UNCHANGED <<encVars, audience_mode, gatewayVars, log, df_object, metrics, distributions, binVars, splitVars, stratVars>>

\* lines 59-68: the call of split_via_stratification
SamplingCallSplit ==
  /\ caller = "run_sampling_for_audience"
  /\ pc = "run_sampling"
  /\ audience_mode = "test"
  /\ input # <<>>
  /\ caller' = "split"
  /\ pc' = "split"
  /\ UNCHANGED <<encVars, audience_mode, gatewayVars, log, df_object, metrics, distributions, binVars, splitVars, stratVars>>

\* lines 69-76: the call returned
SamplingSplitDone ==
  /\ caller = "split"
  /\ audience_mode = "test"
  /\ pc = "split_returned"
  /\ caller' = "run_sampling_for_audience"
  /\ pc' = "sampled"
  /\ UNCHANGED <<encVars, audience_mode, gatewayVars, log, df_object, metrics, distributions, binVars, splitVars, stratVars>>

\* lines 85-92: in prod mode every user is a test user
SamplingProd ==
  /\ caller = "run_sampling_for_audience"
  /\ pc = "run_sampling"
  /\ audience_mode = "prod"
  /\ users_test' = Column(input, "user")
  /\ users_control' = <<>>
  /\ pc' = "sampled"
  /\ UNCHANGED <<caller, encVars, audience_mode, gatewayVars, log, df_object, metrics, distributions, binVars, input,
                 split_ratio, df, numeric_features, cat_features, encoded,
                 stratVars>>

SamplingNext ==
  \/ SamplingOff
  \/ SamplingEmpty
  \/ SamplingCallSplit
  \/ SamplingSplitDone
  \/ SamplingProd
  \/ SplitNext

\* a run of the middleware on a segment, or a call of the split itself
SamplingInit ==
  \/ SplitInit
  \/ /\ caller = "run_sampling_for_audience"
     /\ pc = "run_sampling"
     /\ audience_mode \in {"off", "test", "prod"}
     /\ input \in {<<>>, ScenarioTable} \cup UNION {Tables(n) : n \in 1..MaxRows}
     /\ split_ratio \in {0} \cup {2 * k : k \in 1..(RatioDen - 1)}
     /\ df = None
     /\ numeric_features = None
     /\ cat_features = None
     /\ encoded = None
     /\ users_test = None
     /\ users_control = None
     /\ values = None
     /\ percentile = None
     /\ bins = None
     /\ buckets = None
     /\ enc_all_cols = None
     /\ enc_exclude_cols = None
     /\ GatewayIdle
     /\ log = <<>>
     /\ df_object = None
     /\ metrics = <<>>
     /\ distributions = <<>>
     /\ data = None
     /\ classes = None
     /\ rnum = 0
     /\ per_label_data = <<>>
     /\ size = 0
     /\ subset_sizes = <<>>
     /\ per_label_subset_sizes = <<>>
     /\ sorted_labels = <<>>
     /\ stratified_data_ids = <<>>
     /\ label = None
     /\ encoded_ids = <<>>

SpecSampling == SamplingInit /\ [][SamplingNext]_vars

Raised == {"IndexError", "ValueError", "KeyError"}

\* C15 as stated: the split, given a table without users, returns two empty
\* partitions, raises nothing and logs a warning.
C15_SplitOfEmptyTable ==
  caller = "split" /\ input = <<>> =>
    /\ pc \notin Raised
    /\ pc = "sliced" =>
         /\ users_test = <<>>
         /\ users_control = <<>>
         /\ log # <<>>

\* C15, amended: run_sampling_for_audience in test mode, given a segment
\* without users, never enters the split and raises nothing; it ends with
\* two empty partitions and a logged warning.
C15_EmptySegmentIsNotSplit ==
  audience_mode = "test" /\ input = <<>> =>
    /\ caller = "run_sampling_for_audience"
    /\ pc \in {"run_sampling", "sampled"}
    /\ pc = "sampled" =>
         /\ users_test = <<>>
         /\ users_control = <<>>
         /\ log = <<"warning: segment contains no users">>

C15_Witness ==
  /\ audience_mode = "test"
  /\ input = <<>>
  /\ pc = "sampled"
  /\ users_test = <<>>
  /\ log # <<>>

\* ------------------------------------ get_split_metrics, called directly
TestValues(f) == PartitionValues(input, users_test, f)

ControlValues(f) == PartitionValues(input, users_control, f)

\* the feature the loops of lines 462 and 511 take next
Pending(features) ==
  SelectSeq(features, LAMBDA f : f \notin DOMAIN metrics)

metricsIdle == <<caller, encVars, audience_mode, gatewayVars, log, df_object,
                 distributions, binVars, splitVars, stratVars>>

\* lines 462-508: one round of the loop over the numeric features
MetricsNumericFeature ==
  /\ caller = "get_split_metrics"
  /\ pc = "get_split_metrics"
  /\ Pending(numeric_features) # <<>>
  /\ LET feat == Head(Pending(numeric_features))
     IN metrics' =
          metrics @@ (feat :> NumericMetrics(TestValues(feat), ControlValues(feat)))
  /\ UNCHANGED <<pc, metricsIdle>>

\* lines 511-589: one round of the loop over the categorical features
MetricsCategoricalFeature ==
  /\ caller = "get_split_metrics"
  /\ pc = "get_split_metrics"
  /\ Pending(numeric_features) = <<>>
  /\ Pending(cat_features) # <<>>
  /\ LET feat == Head(Pending(cat_features))
     IN /\ AllValues(TestValues(feat), ControlValues(feat)) # {}
        /\ \E js \in JSOutcomes(TestValues(feat), ControlValues(feat)) :
              metrics' =
                metrics @@ (feat :> CategoricalMetrics(TestValues(feat),
                                                       ControlValues(feat), js))
  /\ UNCHANGED <<pc, metricsIdle>>

\* lines 531-533: max() of no value raises ValueError, outside every try
MetricsMaxRaises ==
  /\ caller = "get_split_metrics"
  /\ pc = "get_split_metrics"
  /\ Pending(numeric_features) = <<>>
  /\ Pending(cat_features) # <<>>
  /\ LET feat == Head(Pending(cat_features))
     IN AllValues(TestValues(feat), ControlValues(feat)) = {}
  /\ pc' = "ValueError"
  /\ UNCHANGED <<metrics, metricsIdle>>

\* line 591
MetricsReturn ==
  /\ caller = "get_split_metrics"
  /\ pc = "get_split_metrics"
  /\ Pending(numeric_features) = <<>>
  /\ Pending(cat_features) = <<>>
  /\ pc' = "metrics_returned"
  /\ UNCHANGED <<metrics, metricsIdle>>

MetricsNext ==
  \/ MetricsNumericFeature
  \/ MetricsCategoricalFeature
  \/ MetricsMaxRaises
  \/ MetricsReturn

\* the table and the forced split of test_get_split_metrics
MetricsScenario ==
  [i \in 1..5 |->
     [user |-> UserName(i),
      days_since_install |-> IF i <= 2 THEN 1 ELSE 2,
      brand |-> IF i <= 2 THEN "Samsung" ELSE "Xiaomi",
      osv |-> IF i <= 2 THEN "Android 14" ELSE "Android 13"]]

\* tables of up to MaxRows users
MetricsTables ==
  UNION {{[i \in 1..n |->
             [user |-> UserName(i),
              days_since_install |-> d[i],
              brand |-> b[i],
              osv |-> "Android 13"]] :
            d \in [1..n -> 0..2], b \in [1..n -> {"Samsung", "Xiaomi"}]} :
           n \in 0..MaxRows}

\* rows of the tables whose samples are large enough for a p-value below
\* 0.05: the first half of the users is the test partition
MaxKSRows == 8

KSTables ==
  {[i \in 1..MaxKSRows |->
      [user |-> UserName(i),
       days_since_install |-> d[i],
       brand |-> "Samsung",
       osv |-> "Android 13"]] :
     d \in [1..MaxKSRows -> 1..2]}

\* the users of a table in two partitions, or in none
Partitions(t) ==
  {[test |-> SelectSeq(Column(t, "user"), LAMBDA u : u \in S),
    control |-> SelectSeq(Column(t, "user"), LAMBDA u : u \notin S)] :
     S \in SUBSET Range(Column(t, "user"))}
    \cup {[test |-> <<>>, control |-> <<>>]}

MetricsInit ==
  /\ caller = "get_split_metrics"
  /\ pc = "get_split_metrics"
  /\ \/ /\ input = MetricsScenario
        /\ users_test = <<UserName(1), UserName(2)>>
        /\ users_control = <<UserName(3), UserName(4), UserName(5)>>
     \/ /\ input \in MetricsTables
        /\ \E p \in Partitions(input) :
              /\ users_test = p.test
              /\ users_control = p.control
     \/ /\ input \in KSTables
        /\ users_test = [i \in 1..(MaxKSRows \div 2) |-> UserName(i)]
        /\ users_control =
             [i \in 1..(MaxKSRows - MaxKSRows \div 2) |->
                UserName(MaxKSRows \div 2 + i)]
  /\ numeric_features = <<"days_since_install">>
  /\ cat_features = <<"brand", "osv">>
  /\ metrics = <<>>
  /\ distributions = <<>>
  /\ df_object = None
  /\ enc_all_cols = None
  /\ enc_exclude_cols = None
  /\ audience_mode = None
  /\ GatewayIdle
  /\ log = <<>>
  /\ split_ratio = 0
  /\ df = None
  /\ encoded = None
  /\ values = None
  /\ percentile = None
  /\ bins = None
  /\ buckets = None
  /\ data = None
  /\ classes = None
  /\ rnum = 0
  /\ per_label_data = <<>>
  /\ size = 0
  /\ subset_sizes = <<>>
  /\ per_label_subset_sizes = <<>>
  /\ sorted_labels = <<>>
  /\ stratified_data_ids = <<>>
  /\ label = None
  /\ encoded_ids = <<>>

SpecMetrics == MetricsInit /\ [][MetricsNext]_vars

\* the numeric features that have their metrics
MeasuredNumeric ==
  {f \in Range(numeric_features) : f \in DOMAIN metrics}

\* r is the fraction n / d, d # 0
IsFraction(r, n, d) == r.defined /\ r.num * d = r.den * n

\* C16: mean_ratio is mean(test) / mean(control), or None when a partition is
\* empty or the control mean is 0; the warnings have a mean_ratio entry
\* exactly when mean_ratio is defined and |mean_ratio - 1| > 0.1, mean_ratio
\* = 0 included; and a std_ratio entry exactly when std_ratio is defined and
\* |std_ratio - 1| > 0.2.
C16_RatiosAndTheirWarnings ==
  caller = "get_split_metrics" =>
    \A f \in MeasuredNumeric :
       LET t == TestValues(f)
           c == ControlValues(f)
           m == metrics[f].mean_ratio
           q == metrics[f].std_ratio_sq
       IN /\ IF t = <<>> \/ c = <<>> \/ Sum(c) = 0
             THEN ~m.defined
             ELSE IsFraction(m, Sum(t) * Len(c), Len(t) * Sum(c))
          /\ "mean_ratio" \in metrics[f].warnings
               <=> m.defined /\ 10 * Abs(m.num - m.den) > m.den
          /\ "std_ratio" \in metrics[f].warnings
               <=> /\ q.defined
                   /\ 25 * q.num > 36 * q.den \/ 25 * q.num < 16 * q.den

\* the features that have their metrics, by kind
MeasuredCategorical ==
  {f \in Range(cat_features) : f \in DOMAIN metrics}

\* C17: get_split_metrics never raises; a metric that could not be computed
\* is None and the feature's warnings say so; every feature gets its entry.
C17_FailuresBecomeWarnings ==
  caller = "get_split_metrics" =>
    /\ pc # "ValueError"
    /\ \A f \in MeasuredNumeric :
          ~metrics[f].ks_statistic.defined => metrics[f].warnings # {}
    /\ \A f \in MeasuredCategorical :
          metrics[f].js_divergence = "None" =>
            "js_divergence" \in metrics[f].warnings
    /\ pc = "metrics_returned" =>
         DOMAIN metrics = Range(numeric_features) \cup Range(cat_features)

\* C18: for the forced split Samsung, Samsung | Xiaomi, Xiaomi, Xiaomi the
\* call returns an entry for every requested feature, and the entry of brand
\* has more than one warning.
C18_ForcedSplitWarnsTwice ==
  caller = "get_split_metrics" /\ input = MetricsScenario =>
    /\ pc # "ValueError"
    /\ pc = "metrics_returned" =>
         /\ DOMAIN metrics = {"days_since_install", "brand", "osv"}
         /\ Cardinality(metrics["brand"].warnings) > 1

C18_Witness ==
  /\ caller = "get_split_metrics"
  /\ input = MetricsScenario
  /\ pc = "metrics_returned"
  /\ metrics["brand"].warnings = {"distribution", "p_value"}
  /\ metrics["days_since_install"].warnings = {"mean_ratio"}

\* ------------------------------------------------ labels of the distributions

\* the raw values of bucket i of line 372 lie between edges[i] and edges[i+1]
\* of Python, and at or above the last edge for the last bucket
RangeLabel(edges, i) ==
  IF i = Len(edges) - 1 THEN ">=" \o FormatF0(edges[Len(edges)])
  ELSE IF i = 0 THEN "0-" \o FormatF0(edges[2])
  ELSE FormatF0(edges[i + 1]) \o "-" \o FormatF0(edges[i + 2])

\* C19: when split_via_stratification has returned, every occupied bucket of
\* every binned feature is labelled with the range of raw values it holds:
\* "0-{first cut}" for the lowest, ">={last cut}" for the highest, "{lo}-{hi}"
\* for the others
C19_BucketLabelsNameTheirRange ==
  (caller = "split" /\ pc = "split_returned") =>
    \A c \in Range(binning_cols) :
      LET occupied == Sorted(Range(Column(df, BinColumn(c))))
          edges == binsify(Column(df, c), NoPercentile)
      IN /\ Len(distributions[BinColumn(c)].categories) = Len(occupied)
         /\ \A k \in DOMAIN occupied :
              distributions[BinColumn(c)].categories[k]
                = RangeLabel(edges, occupied[k])

\* ------------------------------------------------------- the caller's table

\* C20: no step of split_via_stratification changes the table its caller
\* passed in
C20_CallerTableUntouched == [][caller = "split" => input' = input]_vars

\* a call that dropped a duplicate row and added the bin columns to its own
\* table has returned, and the caller's table has neither change
C20_Witness ==
  /\ caller = "split"
  /\ pc = "split_returned"
  /\ Len(df) < Len(input)
  /\ \A i \in DOMAIN df : BinColumn("n_sessions") \in DOMAIN df[i]
  /\ \A i \in DOMAIN input : BinColumn("n_sessions") \notin DOMAIN input[i]

\* ------------------------------------------- the table passed to make_encoding

\* C21: make_encoding changes no value and no dtype of the table passed to it:
\* at every point of the call, returning or raising, that table is what the
\* caller passed
C21_PassedTableUnchanged ==
  caller = "make_encoding" => df = input

\* ------------------------------------------------ users that carry no label

Unlabelled == {i \in Users : data[i] = <<>>}

\* C22: a label without remaining users is never selected and stratify never
\* raises; when no label has a remaining user while users are still
\* unassigned, the loop stops, and the returned partitions hold every user
\* that carries a label and none of the others
C22_StopsWhenNoLabelIsLeft ==
  /\ [](pc \notin {"KeyError", "ValueError", "IndexError"})
  /\ [][(pc = "outer" /\ pc' = "inner") => per_label_data[label'] # {}]_vars
  /\ [][(pc = "outer" /\ size > 0 /\ AvailableLabels = <<>>) =>
          (pc' = "sort" /\ stratified_data_ids' = stratified_data_ids)]_vars
  /\ [](pc = "returned" =>
          Range(encoded_ids[0]) \cup Range(encoded_ids[1]) = Users \ Unlabelled)

\* stratify has returned although a user was still unassigned: the user
\* without labels is in neither partition, the labelled ones are
C22_Witness ==
  /\ pc = "returned"
  /\ size > 0
  /\ Unlabelled # {}
  /\ Unlabelled # Users
  /\ Len(encoded_ids[0]) + Len(encoded_ids[1]) = Cardinality(Users \ Unlabelled)

\* ----------------------------------------------------- the running offset

\* C23: the offset added to the first categorical column is strictly greater
\* than every value of the numeric columns and at least 0, and the offset
\* added to each later categorical column is the previous one plus the number
\* of distinct values of the previous column, in list order
C23_OffsetStartsAboveNumericMaximum ==
  [][(caller = "split" /\ pc = "offset" /\ pc' = "labels") =>
       /\ cat_features # <<>>
       /\ encoded'[1][cat_features[1]] - encoded[1][cat_features[1]] >= 0
       /\ \A n \in Range(numeric_features) : \A i \in DOMAIN encoded :
            encoded'[1][cat_features[1]] - encoded[1][cat_features[1]]
              > encoded[i][n]
       /\ \A k \in 1..(Len(cat_features) - 1) :
            encoded'[1][cat_features[k + 1]] - encoded[1][cat_features[k + 1]]
              = encoded'[1][cat_features[k]] - encoded[1][cat_features[k]]
                  + Cardinality(Range(Column(encoded, cat_features[k])))]_vars

\* -------------------------------------------- labels and the class universe

\* C24: every label of every user's label list handed to stratify is one of
\* the classes handed to it, whatever the storage type of an additional
\* feature column, and the lookup of line 140 does not raise
C24_LabelsAreClasses ==
  /\ (caller = "split" /\ pc = "stratify") =>
       \A i \in Users : Range(data[i]) \subseteq Range(classes)
  /\ caller = "split" => pc # "KeyError"

\* ------------------------------------------------- termination of stratify

Assigned == stratified_data_ids[0] \cup stratified_data_ids[1]

\* C27: stratify returns; a selected label has a user to assign, every step
\* of the inner loop assigns exactly one user that was unassigned, no user is
\* in both partitions, and the assigned users number N minus the remaining
\* size, which never goes below 0
C27_StratifyTerminates ==
  /\ <>(pc = "returned")
  /\ [][(pc = "outer" /\ pc' = "inner") => per_label_data[label'] # {}]_vars
  /\ [][AssignStep =>
          \E u \in Users \ Assigned :
             stratified_data_ids'[0] \cup stratified_data_ids'[1]
               = Assigned \cup {u}]_vars
  /\ [](pc \in {"outer", "inner", "sort", "returned"} =>
          /\ stratified_data_ids[0] \cap stratified_data_ids[1] = {}
          /\ Cardinality(Assigned) = Cardinality(Users) - size
          /\ size >= 0)

\* the call has returned after as many assignments as there are users, one of
\* them carrying two different labels
C27_Witness ==
  /\ pc = "returned"
  /\ size = 0
  /\ Cardinality(Users) = MaxUsers
  /\ Cardinality(Assigned) = MaxUsers
  /\ \E i \in Users : Cardinality(Range(data[i])) = 2

\* ------------------------------------------------- bookkeeping of stratify

CarriedOnce(l) == \A i \in Users : Occurrences(data[i], l) <= 1

\* C28: between two assignments the two overall remaining sizes sum to the
\* number of unassigned users, and for every label no user carries twice the
\* label's two remaining targets sum to the number of unassigned users that
\* carry it (all counts are kept multiplied by Scale)
C28_TargetsSumToRemaining ==
  pc \in {"outer", "inner", "sort", "returned"} =>
    /\ subset_sizes[0] + subset_sizes[1]
         = Scale * (Cardinality(Users) - Cardinality(Assigned))
    /\ \A l \in Range(classes) :
         CarriedOnce(l) =>
           per_label_subset_sizes[l][0] + per_label_subset_sizes[l][1]
             = Scale * Cardinality({i \in Users \ Assigned : l \in Range(data[i])})

\* after an assignment a remaining target of a label is negative while the
\* label still has an unassigned user
C28_Witness ==
  /\ pc = "inner"
  /\ Assigned # {}
  /\ \E l \in Range(classes) : \E p \in {0, 1} :
       /\ CarriedOnce(l)
       /\ per_label_subset_sizes[l][p] < 0
       /\ per_label_data[l] # {}

\* ------------------------------------------------ users with the same labels

\* every user carries the same labels, at least one, and none of them twice
SameLabelSet ==
  /\ \A i, j \in Users : Range(data[i]) = Range(data[j])
  /\ \A i \in Users : data[i] # <<>> /\ Len(data[i]) = Cardinality(Range(data[i]))

\* C29: when all users carry the same (non-empty) label set, each label once,
\* the number of users in the returned test partition differs from ratio * N
\* by less than 1 (both sides multiplied by Scale)
C29_TestSizeWithinOneOfTarget ==
  (pc = "returned" /\ SameLabelSet) =>
    /\ Scale * Len(encoded_ids[0]) - rnum * Cardinality(Users) < Scale
    /\ rnum * Cardinality(Users) - Scale * Len(encoded_ids[0]) < Scale

\* three users with the same two labels were split with a ratio for which
\* ratio * N is not a whole number, and both partitions are occupied
C29_Witness ==
  /\ pc = "returned"
  /\ SameLabelSet
  /\ Cardinality(Users) = 3
  /\ \A i \in Users : Len(data[i]) = 2
  /\ (rnum * 3) % Scale # 0
  /\ Len(encoded_ids[0]) > 0
  /\ Len(encoded_ids[1]) > 0

\* ------------------------------------------------ warnings of the KS test

\* C30: for every measured numeric feature a 'ks_statistic' warning comes
\* only with a 'ks_test' warning, with a p-value below 0.05 and a statistic
\* above 0.1; the 'ks_test' warning is there exactly when the p-value is
\* below 0.05
C30_GapFlagOnlyWhenSignificant ==
  caller = "get_split_metrics" =>
    \A f \in MeasuredNumeric :
       LET w == metrics[f].warnings
           p == metrics[f].p_value
           s == metrics[f].ks_statistic
       IN /\ "ks_statistic" \in w => "ks_test" \in w
          /\ "ks_statistic" \in w =>
               /\ p.defined /\ 100 * p.num < 5 * p.den
               /\ s.defined /\ 10 * s.num > s.den
          /\ "ks_test" \in w <=> (p.defined /\ 100 * p.num < 5 * p.den)

\* two samples of four users that do not overlap: both warnings are reported
C30_Witness ==
  /\ caller = "get_split_metrics"
  /\ pc = "metrics_returned"
  /\ Len(users_test) = 4
  /\ {"ks_test", "ks_statistic"} \subseteq metrics["days_since_install"].warnings

\* ------------------------------------------ daily sampling of one audience
\* (src/server/data_gateway.py, src/server/middleware.py)
\* days of a sequence of runs: 1..MaxDays
MaxDays == 2

\* users that can turn up in a day's segment
MaxGatewayUsers == 2

GatewayUsers == {UserName(k) : k \in 1..MaxGatewayUsers}

Days == 1..MaxDays

\* a daily table <audience>_<group>_<day>: whether it exists, and its rows
\* (user, ttl)
NoTable == [exists |-> FALSE, rows |-> {}]

UsersOf(tbl) == {r.user : r \in tbl.rows}

\* data_gateway.py line 1027 and line 1032: some table of the group exists
AnyTable(group) == \E d \in Days : bq[group][d].exists

\* the users of the tables <audience>_<group>_* with _TABLE_SUFFIX < day
SeenBefore(group, day) ==
  UNION {UsersOf(bq[group][e]) : e \in {x \in Days : x < day}}

\* data_gateway.py lines 1045-1077
load_sampled_users(segment, day, only_new_users) ==
  IF only_new_users
  THEN {u \in segment :
          u \notin SeenBefore("control", day) /\ u \notin SeenBefore("test", day)}
  ELSE segment

\* data_gateway.py lines 1007-1043 with return_only_new_users=True
sample_audience_users(segment, day) ==
  load_sampled_users(segment, day, AnyTable("test") /\ AnyTable("control"))

\* middleware.py lines 67-70 for users with the same features and the
\* default ratio: stratify puts half of them, rounded either way, in the
\* test partition, and which ones is decided by pop order and coin flips
Splits(new) ==
  {T \in SUBSET new :
     2 * Cardinality(T) - Cardinality(new) \in {-1, 0, 1}}

\* data_gateway.py lines 1104-1144 for one group: an empty partition leaves
\* an existing table as it is (_ensure_table), a non-empty one replaces it
SaveGroup(tbl, users, ttl) ==
  IF users = {}
  THEN [exists |-> TRUE, rows |-> tbl.rows]
  ELSE [exists |-> TRUE, rows |-> {[user |-> u, ttl |-> ttl] : u \in users}]

\* data_gateway.py lines 1146-1182 for one group
AddPrevious(tbl, segment, group, day, ttl) ==
  [tbl EXCEPT !.rows =
     @ \cup {[user |-> u, ttl |-> ttl] : u \in segment \cap SeenBefore(group, day)}]

\* data_gateway.py lines 1184-1194
CopyFromPreviousDay(tbl, yesterday) ==
  [tbl EXCEPT !.rows =
     @ \cup {[user |-> r.user, ttl |-> r.ttl - 1] :
               r \in {x \in yesterday.rows :
                        x.ttl > 1 /\ x.user \notin UsersOf(tbl)}}]

\* data_gateway.py lines 1196-1223 for one group: the table that follows
\* today's in the descending list of the group's tables, if there is one
AddYesterdays(tbl, group, day, ttl) ==
  LET earlier == {e \in Days : e < day /\ bq[group][e].exists}
  IN IF ttl > 1 /\ earlier # {}
     THEN CopyFromPreviousDay(tbl, bq[group][Max(earlier)])
     ELSE tbl

\* middleware.py lines 52-110 in 'test' mode, for today's segment
RunSamplingTestMode(segment, T) ==
  LET new == sample_audience_users(segment, today)
      C == new \ T
      Group(group, users) ==
        AddYesterdays(
          AddPrevious(SaveGroup(bq[group][today], users, audience_ttl),
                      segment, group, today, audience_ttl),
          group, today, audience_ttl)
  IN /\ T \in Splits(new)
     /\ bq' = [all |-> [bq.all EXCEPT ![today] =
                          [exists |-> TRUE,
                           rows |-> {[user |-> u, ttl |-> 0] : u \in segment}]],
               test |-> [bq.test EXCEPT ![today] = Group("test", T)],
               control |-> [bq.control EXCEPT ![today] = Group("control", C)]]
     /\ placed' = [test |-> placed.test \cup UsersOf(Group("test", T)),
                   control |-> placed.control \cup UsersOf(Group("control", C))]
     /\ log' = IF new = {} THEN <<"warning: segment contains no users">>
               ELSE <<>>

\* one run of run_sampling_for_audience for the day
DailyRun ==
  /\ caller = "daily runs"
  /\ audience_mode = "test"
  /\ \E segment \in SUBSET GatewayUsers : \E T \in SUBSET segment :
        RunSamplingTestMode(segment, T)
  /\ UNCHANGED <<caller, pc, encVars, audience_mode, today, audience_ttl, ads,
                 df_object, metrics, distributions, binVars, splitVars,
                 stratVars>>

\* data_gateway.py line 1018: the date, and with it the suffix, moves on
NextDay ==
  /\ caller = "daily runs"
  /\ today < MaxDays
  /\ today' = today + 1
  /\ UNCHANGED <<caller, pc, encVars, audience_mode, audience_ttl, bq, placed,
                 ads, log, df_object, metrics, distributions, binVars,
                 splitVars, stratVars>>

DailyNext ==
  \/ DailyRun
  \/ NextDay

DailyInit ==
  /\ caller = "daily runs"
  /\ pc = "run_sampling"
  /\ audience_mode = "test"
  /\ today = 1
  /\ audience_ttl \in 1..2
  /\ bq = [g \in {"all", "test", "control"} |-> [d \in Days |-> NoTable]]
  /\ placed = [test |-> {}, control |-> {}]
  /\ ads = <<>>
  /\ input = None
  /\ split_ratio = 0
  /\ df = None
  /\ numeric_features = None
  /\ cat_features = None
  /\ encoded = None
  /\ users_test = None
  /\ users_control = None
  /\ values = None
  /\ percentile = None
  /\ bins = None
  /\ buckets = None
  /\ enc_all_cols = None
  /\ enc_exclude_cols = None
  /\ log = <<>>
  /\ df_object = None
  /\ metrics = <<>>
  /\ distributions = <<>>
  /\ data = None
  /\ classes = None
  /\ rnum = 0
  /\ per_label_data = <<>>
  /\ size = 0
  /\ subset_sizes = <<>>
  /\ per_label_subset_sizes = <<>>
  /\ sorted_labels = <<>>
  /\ stratified_data_ids = <<>>
  /\ label = None
  /\ encoded_ids = <<>>

SpecDaily == DailyInit /\ [][DailyNext]_vars

\* C25: over the runs of an audience in 'test' mode, re-runs on the same day
\* included, no user is ever written to a test table and to a control table,
\* and no user is in a test table and a control table at once
C25_UserAffinity ==
  caller = "daily runs" =>
    /\ placed.test \cap placed.control = {}
    /\ \A d, e \in Days :
         UsersOf(bq.test[d]) \cap UsersOf(bq.control[e]) = {}

\* --------------------------------------- upload of a customer match audience
\* (src/server/ads_gateway.py)
\* users of one upload: 0..MaxUploadUsers
MaxUploadUsers == 4

\* stands for _MAX_OPERATIONS_PER_JOB (100000, ads_gateway.py line 34), so
\* that an upload of MaxUploadUsers users is sent in more than one chunk
MaxOperationsPerJob == 3

\* lines 267-303: the remove_all operation (an empty one without overwrite),
\* then one create operation per user
BuildOperations(users, overwrite) ==
  <<IF overwrite THEN "remove_all" ELSE "no-op">> \o users

\* lines 190-198: the requests the operations are sent in
Chunks(operations) ==
  IF Len(operations) < MaxOperationsPerJob
  THEN <<operations>>
  ELSE [k \in 1..((Len(operations) + MaxOperationsPerJob - 1)
                    \div MaxOperationsPerJob) |->
          SubSeq(operations, (k - 1) * MaxOperationsPerJob + 1,
                 Min({k * MaxOperationsPerJob, Len(operations)}))]

\* sorted(failure_idx, reverse=True)
RECURSIVE SortedDescending(_)
SortedDescending(S) ==
  IF S = {} THEN <<>> ELSE <<Max(S)>> \o SortedDescending(S \ {Max(S)})

\* del users[idx], idx counted from 0
DeleteAt(users, idx) ==
  SubSeq(users, 1, idx) \o SubSeq(users, idx + 2, Len(users))

\* lines 259-261: users[idx] is recorded and deleted for every failure index,
\* largest first; users[idx] raises IndexError beyond the end of the list
RECURSIVE RemoveFailed(_, _, _)
RemoveFailed(users, failed, idxs) ==
  IF idxs = <<>> THEN [raised |-> FALSE, users |-> users, failed |-> failed]
  ELSE IF Head(idxs) >= Len(users)
       THEN [raised |-> TRUE, users |-> users, failed |-> failed]
       ELSE RemoveFailed(DeleteAt(users, Head(idxs)),
                         Append(failed, users[Head(idxs) + 1]),
                         Tail(idxs))

\* lines 222-265: failure_idx holds the indices, within the request, of the
\* operations the API reported as partial failures; without a partial
\* failure the result is None
execute_upload_job(users, failure_idx) ==
  IF failure_idx = {}
  THEN [raised |-> FALSE, users |-> users, none |-> TRUE, failed |-> <<>>]
  ELSE LET r == RemoveFailed(users, <<>>, SortedDescending(failure_idx))
       IN [raised |-> r.raised, users |-> r.users, none |-> FALSE,
           failed |-> r.failed]

\* lines 141-189: the job is created and the operations are built
UploadBuild ==
  /\ caller = "upload_customer_match_audience"
  /\ pc = "upload"
  /\ ads' = [ads EXCEPT !.operations = BuildOperations(ads.users, ads.overwrite),
                        !.chunked = Len(BuildOperations(ads.users, ads.overwrite))
                                      >= MaxOperationsPerJob]
  /\ pc' = "send"
  /\ UNCHANGED <<caller, encVars, audience_mode, today, audience_ttl, bq,
                 placed, log, df_object, metrics, distributions, binVars,
                 splitVars, stratVars>>

\* the create operations of request k, as indices within the request
CreateIndices(k) ==
  {j \in 0..(Len(Chunks(ads.operations)[k]) - 1) :
     (k - 1) * MaxOperationsPerJob + j >= 1}

\* lines 190-209: one request is sent and the API reports the operations of
\* failure_idx as partial failures; reported holds the users those operations
\* were built for
UploadSend(failure_idx) ==
  /\ caller = "upload_customer_match_audience"
  /\ pc = "send"
  /\ ads.sent < Len(Chunks(ads.operations))
  /\ failure_idx \subseteq CreateIndices(ads.sent + 1)
  /\ LET r == execute_upload_job(ads.users, failure_idx)
         reported == {ads.given[ads.sent * MaxOperationsPerJob + j] :
                        j \in failure_idx}
     IN IF r.raised
        THEN /\ pc' = "IndexError"
             /\ ads' = [ads EXCEPT !.users = r.users,
                                   !.reported = @ \cup reported]
        ELSE /\ pc' = pc
             /\ ads' = [ads EXCEPT
                          !.users = r.users,
                          !.sent = @ + 1,
                          !.reported = @ \cup reported,
                          !.failed_user_ids =
                             IF ~ads.chunked
                             THEN [kind |-> IF r.none THEN "None" ELSE "flat",
                                   flat |-> r.failed, nested |-> <<>>]
                             ELSE IF r.failed = <<>> THEN @
                             ELSE [kind |-> "nested", flat |-> <<>>,
                                   nested |-> Append(@.nested, r.failed)]]
  /\ UNCHANGED <<caller, encVars, audience_mode, today, audience_ttl, bq,
                 placed, log, df_object, metrics, distributions, binVars,
                 splitVars, stratVars>>

UploadSendSome ==
  \E failure_idx \in SUBSET (0..(MaxOperationsPerJob - 1)) :
     UploadSend(failure_idx)

\* lines 211-220: the job is started and the three results are returned
UploadReturn ==
  /\ caller = "upload_customer_match_audience"
  /\ pc = "send"
  /\ ads.sent = Len(Chunks(ads.operations))
  /\ ads' = [ads EXCEPT !.job = IF ads.users # <<>> THEN "job" ELSE None,
                        !.returned_users = ads.users]
  /\ pc' = "uploaded"
  /\ UNCHANGED <<caller, encVars, audience_mode, today, audience_ttl, bq,
                 placed, log, df_object, metrics, distributions, binVars,
                 splitVars, stratVars>>

UploadNext ==
  \/ UploadBuild
  \/ UploadSendSome
  \/ UploadReturn

UploadInit ==
  /\ caller = "upload_customer_match_audience"
  /\ pc = "upload"
  /\ \E n \in 0..MaxUploadUsers : \E overwrite \in BOOLEAN :
        ads = [given |-> [i \in 1..n |-> UserName(i)],
               users |-> [i \in 1..n |-> UserName(i)],
               overwrite |-> overwrite,
               operations |-> <<>>,
               chunked |-> FALSE,
               sent |-> 0,
               reported |-> {},
               failed_user_ids |-> [kind |-> "None", flat |-> <<>>,
                                    nested |-> <<>>],
               job |-> None,
               returned_users |-> <<>>]
  /\ audience_mode = None
  /\ today = 0
  /\ audience_ttl = 0
  /\ bq = <<>>
  /\ placed = <<>>
  /\ input = None
  /\ split_ratio = 0
  /\ df = None
  /\ numeric_features = None
  /\ cat_features = None
  /\ encoded = None
  /\ users_test = None
  /\ users_control = None
  /\ values = None
  /\ percentile = None
  /\ bins = None
  /\ buckets = None
  /\ enc_all_cols = None
  /\ enc_exclude_cols = None
  /\ log = <<>>
  /\ df_object = None
  /\ metrics = <<>>
  /\ distributions = <<>>
  /\ data = None
  /\ classes = None
  /\ rnum = 0
  /\ per_label_data = <<>>
  /\ size = 0
  /\ subset_sizes = <<>>
  /\ per_label_subset_sizes = <<>>
  /\ sorted_labels = <<>>
  /\ stratified_data_ids = <<>>
  /\ label = None
  /\ encoded_ids = <<>>

SpecUpload == UploadInit /\ [][UploadNext]_vars

\* C26: with the remove_all operation first, the call does not raise; the
\* failed-user list it returns is a flat list (or None when nothing failed)
\* of exactly the users whose create operation was reported as a partial
\* failure, and the uploaded-user list holds exactly the other users
C26_FailedAndUploadedUsers ==
  (caller = "upload_customer_match_audience" /\ ads.overwrite) =>
    /\ pc # "IndexError"
    /\ pc = "uploaded" =>
         /\ ads.failed_user_ids.kind \in {"None", "flat"}
         /\ Range(ads.failed_user_ids.flat) = ads.reported
         /\ ads.returned_users =
              SelectSeq(ads.given, LAMBDA u : u \notin ads.reported)

====
